---- MODULE Spec2Model ----
(***************************************************************************)
(* omni-Arb: venue price comparison (DEXManager), pairwise detection       *)
(* (ArbitrageDetector), multi-hop routing (MultiHopRouter) and ranking /   *)
(* capital allocation (OmniStrategyEngine).                                *)
(*                                                                         *)
(* Decimal amounts are held as integers counted in thousandths (Unit), the *)
(* resolution of the router's 0.3% fee on whole amounts.  confidence and   *)
(* risk_score are held in hundredths.  Wei amounts of the detector are     *)
(* plain integers.                                                         *)
(***************************************************************************)
EXTENDS Integers, Sequences, FiniteSets, TLC

VARIABLES
    \* OmniStrategyEngine
    capital, max_position_size, total_profit, trades_executed, daily_pnl,
    opportunities,   \* the list of signals the caller holds
    ranked,          \* result of rank_opportunities
    allocInput,      \* the list allocate_capital was called with
    allocations,     \* result of allocate_capital (dict: signal -> amount)
    pc,              \* position of the engine's caller
    \* DEXManager / ArbitrageDetector
    venueQuotes,     \* what each venue's get_price does when it is asked
    callArgs,        \* token_in, token_out, amount_in, min_profit_pct of the call
    prices,          \* result of compare_prices
    found,           \* result of find_opportunities
    otherQuotes,     \* what the venues do when asked about the other token pair
    scanArgs,        \* token_pairs of the scan_token_pairs call
    all_opportunities, \* result of scan_token_pairs
    dpc,             \* position of the detector's caller
    \* MultiHopRouter
    market,          \* how the venues answer get_amount_out during the call
    routerConfig,    \* min_profit_threshold and max_hops of the router
    routeArgs,       \* start_token, end_token, amount, max_hops of the call
    routes,          \* result of find_profitable_routes
    candidates,      \* the candidate paths of the call and the quotes each asked for
    rpc,             \* position of the router's caller
    \* DEXManager.compare_prices, one venue at a time
    asked,           \* how many venues' get_price calls have come back
    collected,       \* the local list `prices` while the loop runs
    qpc,             \* position inside compare_prices
    \* OmniStrategyEngine.scan_all_opportunities / execute_strategy
    collaborators,   \* the detector, router and executor the engine was built with
    scanOutcome,     \* how each of the three scans of the last cycle ended
    execResult,      \* what execute_strategy returned last
    executions,      \* the execute_strategy calls made so far, with what the executor did
    \* OmniArb (main.py)
    running,         \* self.running
    bpc,             \* position of the main thread
    delivered,       \* shutdown signals delivered so far
    netIndex,        \* position of the loop over self.detectors
    cycles,          \* scan cycles started, counted up to MaxCycles
    detectors        \* len(self.detectors): the networks that connected

engineVars == <<capital, max_position_size, total_profit, trades_executed,
                daily_pnl, opportunities, ranked, allocInput, allocations, pc>>

dexVars == <<venueQuotes, callArgs, prices, found, otherQuotes, scanArgs,
             all_opportunities, dpc>>

routerVars == <<market, routerConfig, routeArgs, routes, candidates, rpc>>

queryVars == <<asked, collected, qpc>>

cycleVars == <<collaborators, scanOutcome, execResult, executions>>

botVars == <<running, bpc, delivered, netIndex, cycles, detectors>>

restVars == <<queryVars, cycleVars, botVars>>

vars == <<engineVars, dexVars, routerVars, restVars>>

-----------------------------------------------------------------------------
\* Generic helpers

Unit == 1000
Dec(n) == n * Unit

Min2(a, b) == IF a <= b THEN a ELSE b
Min3(a, b, c) == Min2(a, Min2(b, c))
Abs(n) == IF n < 0 THEN -n ELSE n

RECURSIVE GCD(_, _)
GCD(a, b) == IF b = 0 THEN a ELSE GCD(b, a % b)

RECURSIVE SumSeq(_)
SumSeq(s) == IF s = <<>> THEN 0 ELSE Head(s) + SumSeq(Tail(s))

RECURSIVE SumValues(_)
SumValues(f) ==
    IF DOMAIN f = {} THEN 0
    ELSE LET k == CHOOSE x \in DOMAIN f : TRUE
         IN f[k] + SumValues([x \in DOMAIN f \ {k} |-> f[x]])

\* Python's sorted(..., reverse=True) / list.sort(reverse=True): a stable
\* descending sort.  Element i lands after every element with a strictly
\* greater key and after every earlier element with an equal key.
\* (The list and the positions are bound through one-element sets, so that
\* each is worked out once.)
StableSortDesc(s, Gt(_, _)) ==
    CHOOSE r \in
        {[p \in DOMAIN t |-> t[CHOOSE i \in DOMAIN t : pos[i] = p]] :
            <<t, pos>> \in
               {<<u, [i \in DOMAIN u |->
                        1 + Cardinality({j \in DOMAIN u :
                                Gt(u[j], u[i]) \/ (j < i /\ ~Gt(u[i], u[j]))})]>> :
                   u \in {s}}} : TRUE

\* The same call with reverse=True forgotten (ascending, stable).
StableSortAsc(s, Gt(_, _)) ==
    LET pos(i) == 1 + Cardinality({j \in DOMAIN s :
                        Gt(s[i], s[j]) \/ (j < i /\ ~Gt(s[j], s[i]))})
    IN [p \in DOMAIN s |-> s[CHOOSE i \in DOMAIN s : pos(i) = p]]

\* sorted(...) followed by a reversal: descending, but ties come out in the
\* reverse of their input order.
ReversedSortAsc(s, Gt(_, _)) ==
    LET a == StableSortAsc(s, Gt)
    IN [p \in DOMAIN s |-> a[Len(s) + 1 - p]]

SeqsUpTo(S, n) == UNION {[1..k -> S] : k \in 0..n}

Count(s, x) == Cardinality({i \in DOMAIN s : s[i] = x})

RECURSIVE Flat(_)
Flat(ss) == IF ss = <<>> THEN <<>> ELSE Head(ss) \o Flat(Tail(ss))

Take(s, n) == SubSeq(s, 1, Min2(n, Len(s)))

-----------------------------------------------------------------------------
\* OmniStrategyEngine (src/core/strategy_engine.py)

MaxRankLen == 3      \* longest list handed to rank_opportunities
MaxAllocLen == 5     \* longest list handed straight to allocate_capital

DEFAULT_CAPITAL == Dec(100000)
MIN_NET_PROFIT == Dec(20)
MIN_POSITION == Dec(100)
MIN_CONFIDENCE == 70

Signal(strategy, confidence, risk_score, capital_required, net_profit) ==
    [strategy |-> strategy, confidence |-> confidence, risk_score |-> risk_score,
     capital_required |-> capital_required, net_profit |-> net_profit,
     timestamp |-> 1]

\* datetime.now() at each signal's construction: one tick per signal, or the
\* same reading for all of them when they are built within one clock tick
\* (signals equal in every field are one key of the allocation dict).
Stamped(list, sameTick) ==
    [i \in DOMAIN list |-> [list[i] EXCEPT !.timestamp = IF sameTick THEN 1 ELSE i]]

\* Signals offered to rank_opportunities: flash signals carry risk 0.3 and
\* multi-hop signals risk 0.4 as the scans build them; the last five sit on
\* or beyond the filter's limits, or tie another signal's score.
RankPool ==
    {Signal("flash_arbitrage", c, 30, Dec(100), Dec(p)) : c \in {75, 85}, p \in {30, 40}}
    \cup {Signal("multi_hop", c, 40, Dec(100), Dec(p)) : c \in {75, 85}, p \in {30, 40}}
    \cup {Signal("flash_arbitrage", 70, 30, Dec(100), Dec(40)),
          Signal("multi_hop", 60, 40, Dec(100), Dec(90)),
          Signal("flash_arbitrage", 85, 30, Dec(100), Dec(20)),
          Signal("flash_arbitrage", 85, 30, Dec(300), Dec(40)),
          Signal("flash_arbitrage", 85, 30, Dec(200), Dec(60))}

\* Signals offered straight to allocate_capital: they differ in the capital
\* they ask for (below the minimum position, at it, and above the cap).
AllocPool ==
    {Signal("flash_arbitrage", 85, 30, Dec(c), Dec(30)) : c \in {50, 100, 150, 250}}

\* Two opportunities that each ask for 30,000, more than a position may hold
\* under the default capital
ScenarioPool ==
    {Signal("flash_arbitrage", 85, 30, Dec(30000), Dec(300)),
     Signal("multi_hop", 85, 40, Dec(30000), Dec(400))}
ScenarioLists == [1..2 -> ScenarioPool]

InitialCapitals == {0, Dec(500), Dec(1000)}

AvailableCapitalFull(cap) == cap
AvailableCapital(cap) == (cap * 8) \div 10

MaxPositionSizeThirty(cap) == (cap * 3) \div 10
MaxPositionSize(cap) == (cap * 2) \div 10

\* score_opportunity: the float score as the exact fraction num/den, den > 0
Score(opp) ==
    IF opp.capital_required = 0 \/ opp.risk_score = 0
    THEN [num |-> 0, den |-> 1]
    ELSE LET n == opp.net_profit * opp.confidence
             d == opp.capital_required * opp.risk_score
             g == GCD(Abs(n), Abs(d))
             sgn == IF d < 0 THEN -1 ELSE 1
         IN [num |-> sgn * (n \div g), den |-> sgn * (d \div g)]

ScoreGt(a, b) ==
    LET sa == Score(a)
        sb == Score(b)
    IN sa.num * sb.den > sb.num * sa.den
ScoreEq(a, b) ==
    LET sa == Score(a)
        sb == Score(b)
    IN sa.num * sb.den = sb.num * sa.den

PassesFilterLoose(opp, mps) ==
    /\ opp.confidence >= MIN_CONFIDENCE
    /\ opp.net_profit > MIN_NET_PROFIT
    /\ opp.capital_required <= mps
PassesFilter(opp, mps) ==
    /\ opp.confidence > MIN_CONFIDENCE
    /\ opp.net_profit > MIN_NET_PROFIT
    /\ opp.capital_required <= mps

Filtered(opps, mps) == SelectSeq(opps, LAMBDA o : PassesFilter(o, mps))

SortByScoreAscending(filtered) == StableSortAsc(filtered, ScoreGt)
SortByScoreReversed(filtered) == ReversedSortAsc(filtered, ScoreGt)
SortByScore(filtered) == StableSortDesc(filtered, ScoreGt)

RankResult(opps, mps) == SortByScore(Filtered(opps, mps))

\* max_allocation = min(max_position_size, capital_required, available_capital)
MaxAllocationWhole(mps, opp, available) ==
    IF opp.capital_required <= Min2(mps, available) THEN opp.capital_required ELSE 0
MaxAllocationUncapped(mps, opp, available) == Min2(opp.capital_required, available)
MaxAllocation(mps, opp, available) == Min3(mps, opp.capital_required, available)

DictPut(d, k, v) == [x \in DOMAIN d \cup {k} |-> IF x = k THEN v ELSE d[x]]

RECURSIVE AllocLoop(_, _, _, _, _)
AllocLoop(opps, i, allocs, available, mps) ==
    IF i > Len(opps) THEN allocs
    ELSE LET opp == opps[i]
             max_allocation == MaxAllocation(mps, opp, available)
         IN IF max_allocation >= MIN_POSITION
            THEN IF available - max_allocation < MIN_POSITION
                 THEN DictPut(allocs, opp, max_allocation)
                 ELSE AllocLoop(opps, i + 1, DictPut(allocs, opp, max_allocation),
                                available - max_allocation, mps)
            ELSE AllocLoop(opps, i + 1, allocs, available, mps)

EmptyDict == [x \in {} |-> 0]

AllocResult(opps, cap, mps) == AllocLoop(opps, 1, EmptyDict, AvailableCapital(cap), mps)

\* allocate_capital draws on the local available_capital only; no attribute of
\* the engine is assigned
CapitalAfterCommitting(cap, allocs) == cap - SumValues(allocs)
CapitalAfterAllocation(cap, allocs) == cap

\* the filter and sorted() build new lists; the caller's list stays as it was
InputAfterRanking(opps, result) == opps

EngineIdle ==
    /\ capital = DEFAULT_CAPITAL
    /\ max_position_size = MaxPositionSize(DEFAULT_CAPITAL)
    /\ total_profit = 0
    /\ trades_executed = 0
    /\ daily_pnl = <<>>
    /\ opportunities = <<>>
    /\ ranked = <<>>
    /\ allocInput = <<>>
    /\ allocations = EmptyDict
    /\ pc = "idle"

EngineInitWith(lists) ==
    /\ \E initial_capital \in InitialCapitals :
         LET c == IF initial_capital = 0 THEN DEFAULT_CAPITAL ELSE initial_capital
         IN /\ capital = c
            /\ max_position_size = MaxPositionSize(c)
    /\ total_profit = 0
    /\ trades_executed = 0
    /\ daily_pnl = <<>>
    /\ \E list \in lists, sameTick \in BOOLEAN :
         \* one clock reading for all signals matters only when two of them
         \* agree in every other field
         /\ sameTick => \E i, j \in DOMAIN list : i < j /\ list[i] = list[j]
         /\ opportunities = Stamped(list, sameTick)
    /\ ranked = <<>>
    /\ allocInput = <<>>
    /\ allocations = EmptyDict
    /\ pc = "scanned"

EngineInit ==
    EngineInitWith(SeqsUpTo(RankPool, MaxRankLen) \cup SeqsUpTo(AllocPool, MaxAllocLen)
                       \cup ScenarioLists)

RankOpportunities ==
    /\ pc = "scanned"
    /\ ranked' = RankResult(opportunities, max_position_size)
    /\ opportunities' = InputAfterRanking(opportunities, ranked')
    /\ pc' = "ranked"
    /\ UNCHANGED <<capital, max_position_size, total_profit, trades_executed,
                   daily_pnl, allocInput, allocations>>
    /\ UNCHANGED <<dexVars, routerVars, restVars>>

\* allocate_capital, called with the ranked list, or by a caller that hands
\* it a list of its own
AllocateCapital ==
    /\ pc \in {"scanned", "ranked"}
    /\ LET input == IF pc = "ranked" THEN ranked ELSE opportunities
       IN /\ allocInput' = input
          /\ allocations' = AllocResult(input, capital, max_position_size)
    /\ capital' = CapitalAfterAllocation(capital, allocations')
    /\ pc' = "allocated"
    /\ UNCHANGED <<max_position_size, total_profit, trades_executed,
                   daily_pnl, opportunities, ranked>>
    /\ UNCHANGED <<dexVars, routerVars, restVars>>

-----------------------------------------------------------------------------
\* DEXManager (src/dex/dex_manager.py), ArbitrageDetector (src/core/arbitrage.py)

\* self.dexes, in insertion order
DexOrder == <<"uniswap_v2", "sushiswap", "pancakeswap">>

\* What a venue's get_price can do: raise, return None, or return an int
Raises == [kind |-> "error", amount |-> 0]
ReturnsNone == [kind |-> "none", amount |-> 0]
Returns(n) == [kind |-> "value", amount |-> n]
VenueOutcomes == {Raises, ReturnsNone} \cup {Returns(n) : n \in {-1, 0, 98, 99, 102}}

NETWORK == "ethereum"

\* min_profit_pct and profit_percentage are counted in 1/10000 of a percent,
\* the resolution of round(profit_pct, 4)
PctUnit == 10000
MinProfitPcts == {0, PctUnit \div 10, PctUnit \div 2, 35 * (PctUnit \div 10)}
TokenPairs == {<<"WETH", "USDC">>, <<"USDC", "DAI">>}
AmountsIn == {100}
MaxScanLen == 2      \* longest token_pairs list handed to scan_token_pairs

\* `if output_amount:` -- None and 0 are falsy, every other int is kept
Truthy(q) == q.kind = "value" /\ q.amount # 0

PriceGt(a, b) == a[2] > b[2]

SortPricesAscending(list) == StableSortAsc(list, PriceGt)
SortPrices(list) == StableSortDesc(list, PriceGt)

RECURSIVE CollectPrices(_, _)
CollectPrices(quotes, i) ==
    IF i > Len(DexOrder) THEN <<>>
    ELSE LET dex_name == DexOrder[i]
             q == quotes[dex_name]
         IN (IF Truthy(q) THEN <<<<dex_name, q.amount>>>> ELSE <<>>)
                \o CollectPrices(quotes, i + 1)

ComparePricesResult(quotes) == SortPrices(CollectPrices(quotes, 1))

\* round(x, 4) of the quotient n/d (d > 0), ties to even
RoundHalfEven(n, d) ==
    LET q == n \div d
        r == n - q * d
    IN IF 2 * r < d THEN q
       ELSE IF 2 * r > d THEN q + 1
       ELSE IF q % 2 = 0 THEN q ELSE q + 1

\* calculate_profit_percentage with gas_cost = 0; from_wei scales both prices
\* alike and leaves their ratio as it is
CalculateProfitPercentageOfSell(buy_price, sell_price) ==
    IF sell_price <= 0 THEN 0
    ELSE RoundHalfEven((sell_price - buy_price) * 100 * PctUnit, sell_price)
CalculateProfitPercentage(buy_price, sell_price) ==
    IF buy_price <= 0 THEN 0
    ELSE RoundHalfEven((sell_price - buy_price) * 100 * PctUnit, buy_price)

IsProfitableAnyPct(profit, profit_pct, min_profit_pct) == profit > 0
IsProfitable(profit, profit_pct, min_profit_pct) ==
    profit > 0 /\ profit_pct >= min_profit_pct

ArbitrageOpportunity(buy, sell, args) ==
    [buy_dex |-> buy[1], sell_dex |-> sell[1],
     token_in |-> args.token_in, token_out |-> args.token_out,
     amount_in |-> args.amount_in,
     buy_price |-> buy[2], sell_price |-> sell[2],
     profit |-> sell[2] - buy[2],
     profit_percentage |-> CalculateProfitPercentage(buy[2], sell[2]),
     network |-> NETWORK]

\* for i, buy in enumerate(prices): for sell in prices[:i]: ...
RECURSIVE ScanPairs(_, _, _, _)
ScanPairs(ps, i, j, args) ==
    IF i > Len(ps) THEN <<>>
    ELSE IF j >= i THEN ScanPairs(ps, i + 1, 1, args)
    ELSE LET opp == ArbitrageOpportunity(ps[i], ps[j], args)
         IN (IF IsProfitable(opp.profit, opp.profit_percentage, args.min_profit_pct)
             THEN <<opp>> ELSE <<>>)
                \o ScanPairs(ps, i, j + 1, args)

PctGt(a, b) == a.profit_percentage > b.profit_percentage

SortOpportunitiesNone(list) == list
SortOpportunities(list) == StableSortDesc(list, PctGt)

\* from_wei hands the amount to Web3.from_wei, which raises ValueError for a
\* negative amount.  Both prices of every pair go through it before the pair
\* is judged, so a call that keeps two or more prices, one of them negative,
\* ends in that exception and returns nothing.
FromWeiRaises(ps) == Len(ps) >= 2 /\ \E i \in DOMAIN ps : ps[i][2] < 0

FindOpportunitiesResult(ps, args) ==
    IF Len(ps) < 2 THEN <<>>
    ELSE SortOpportunities(ScanPairs(ps, 1, 1, args))

\* scan_token_pairs: find_opportunities for each pair in turn, a pair whose
\* search raises contributes nothing, then one sort of the merged list.  The
\* venues answer for the pair of callArgs as venueQuotes says and for the
\* other pair as other says.
QuotesFor(pair, args, quotes, other) ==
    IF pair = <<args.token_in, args.token_out>> THEN quotes ELSE other

FindOpportunitiesInScan(pair, args, quotes, other) ==
    LET ps == ComparePricesResult(QuotesFor(pair, args, quotes, other))
    IN IF FromWeiRaises(ps) THEN <<>>
       ELSE FindOpportunitiesResult(ps, [args EXCEPT !.token_in = pair[1],
                                                     !.token_out = pair[2]])

SortAllOpportunitiesNone(list) == list
SortAllOpportunities(list) == StableSortDesc(list, PctGt)

ScanTokenPairsResult(token_pairs, args, quotes, other) ==
    SortAllOpportunities(
        Flat([i \in DOMAIN token_pairs |->
                 FindOpportunitiesInScan(token_pairs[i], args, quotes, other)]))

\* Answers of the venues for the other pair: every venue fails; quotes of
\* 99, 102, 98; quotes of 102 and 99 beside a negative amount
OtherPairQuotes ==
    {[d \in {DexOrder[i] : i \in DOMAIN DexOrder} |-> Raises],
     [d \in {DexOrder[i] : i \in DOMAIN DexOrder} |->
         IF d = DexOrder[1] THEN Returns(99)
         ELSE IF d = DexOrder[2] THEN Returns(102) ELSE Returns(98)],
     [d \in {DexOrder[i] : i \in DOMAIN DexOrder} |->
         IF d = DexOrder[1] THEN Returns(102)
         ELSE IF d = DexOrder[2] THEN Returns(-1) ELSE Returns(99)]}

DexIdle ==
    /\ venueQuotes = [d \in {} |-> Raises]
    /\ callArgs = [token_in |-> "", token_out |-> "", amount_in |-> 0, min_profit_pct |-> 0]
    /\ prices = <<>>
    /\ found = <<>>
    /\ otherQuotes = [d \in {} |-> Raises]
    /\ scanArgs = <<>>
    /\ all_opportunities = <<>>
    /\ dpc = "idle"

DexInit ==
    /\ venueQuotes \in [{DexOrder[i] : i \in DOMAIN DexOrder} -> VenueOutcomes]
    /\ \E pair \in TokenPairs, amount_in \in AmountsIn, min_profit_pct \in MinProfitPcts :
         callArgs = [token_in |-> pair[1], token_out |-> pair[2],
                     amount_in |-> amount_in, min_profit_pct |-> min_profit_pct]
    /\ prices = <<>>
    /\ found = <<>>
    /\ otherQuotes \in OtherPairQuotes
    /\ scanArgs = <<>>
    /\ all_opportunities = <<>>
    /\ dpc = "ready"

ComparePrices ==
    /\ dpc = "ready"
    /\ prices' = ComparePricesResult(venueQuotes)
    /\ dpc' = "compared"
    /\ UNCHANGED <<venueQuotes, callArgs, found, otherQuotes, scanArgs, all_opportunities>>
    /\ UNCHANGED <<engineVars, routerVars, restVars>>

FindOpportunities ==
    /\ dpc = "ready"
    /\ LET ps == ComparePricesResult(venueQuotes)
       IN /\ prices' = ps
          /\ found' = IF FromWeiRaises(ps) THEN <<>>
                      ELSE FindOpportunitiesResult(ps, callArgs)
          /\ dpc' = IF FromWeiRaises(ps) THEN "raised" ELSE "found"
    /\ UNCHANGED <<venueQuotes, callArgs, otherQuotes, scanArgs, all_opportunities>>
    /\ UNCHANGED <<engineVars, routerVars, restVars>>

ScanTokenPairs ==
    /\ dpc = "ready"
    /\ \E token_pairs \in SeqsUpTo(TokenPairs, MaxScanLen) :
         /\ scanArgs' = token_pairs
         /\ all_opportunities' =
                ScanTokenPairsResult(token_pairs, callArgs, venueQuotes, otherQuotes)
    /\ dpc' = "scanned"
    /\ UNCHANGED <<venueQuotes, callArgs, prices, found, otherQuotes>>
    /\ UNCHANGED <<engineVars, routerVars, restVars>>

-----------------------------------------------------------------------------
\* DEXManager.compare_prices, venue by venue

\* A venue whose get_price call (an eth_call through the router contract)
\* never comes back: compare_prices sets no timeout on it and asks the venues
\* one after the other
NeverAnswers == [kind |-> "hangs", amount |-> 0]
QueryOutcomes == VenueOutcomes \cup {NeverAnswers}

QueryInit ==
    /\ venueQuotes \in [{DexOrder[i] : i \in DOMAIN DexOrder} -> QueryOutcomes]
    /\ callArgs = [token_in |-> "WETH", token_out |-> "USDC",
                   amount_in |-> 100, min_profit_pct |-> 0]
    /\ prices = <<>>
    /\ found = <<>>
    /\ otherQuotes = [d \in {} |-> Raises]
    /\ scanArgs = <<>>
    /\ all_opportunities = <<>>
    /\ dpc = "comparing"
    /\ asked = 0
    /\ collected = <<>>
    /\ qpc = "loop"

\* output_amount = dex.get_price(...): the call is made and the thread waits
AskVenue ==
    /\ qpc = "loop"
    /\ asked < Len(DexOrder)
    /\ qpc' = "waiting"
    /\ UNCHANGED <<asked, collected>>
    /\ UNCHANGED <<engineVars, dexVars, routerVars, cycleVars, botVars>>

\* the call comes back with an amount, with None or with an exception
VenueAnswers ==
    /\ qpc = "waiting"
    /\ LET dex_name == DexOrder[asked + 1]
           q == venueQuotes[dex_name]
       IN /\ q # NeverAnswers
          /\ collected' = IF Truthy(q) THEN Append(collected, <<dex_name, q.amount>>)
                          ELSE collected
    /\ asked' = asked + 1
    /\ qpc' = "loop"
    /\ UNCHANGED <<engineVars, dexVars, routerVars, cycleVars, botVars>>

\* after the last venue: sort and return
ReturnPrices ==
    /\ qpc = "loop"
    /\ asked = Len(DexOrder)
    /\ prices' = SortPrices(collected)
    /\ dpc' = "compared"
    /\ qpc' = "returned"
    /\ UNCHANGED <<asked, collected>>
    /\ UNCHANGED <<venueQuotes, callArgs, found, otherQuotes, scanArgs, all_opportunities>>
    /\ UNCHANGED <<engineVars, routerVars, cycleVars, botVars>>

-----------------------------------------------------------------------------
\* MultiHopRouter (src/core/multihop_router.py)

MaxMidGain == 1       \* largest gain of a swap into an intermediate token, in tens

\* dex_manager.get_available_tokens() and get_available_dexes()
AvailableTokens == <<"USDC", "WETH", "WMATIC", "USDT", "DAI">>
AvailableDexes == <<"uniswap", "sushiswap", "quickswap">>

DEFAULT_MAX_HOPS == 3
FEE_PER_MILLE == 3
GAS_2HOP == 250000
GAS_3HOP == 350000
GAS_4HOP == 450000

\* The venues during one call.  A swap into an intermediate token returns
\* amount_in + midDelta, a swap into the end token amount_in + endDelta, plus
\* `spread` on the second venue; the pair in `unavailable`, if any, gives no
\* usable answer, in the way FailureOf says.
MidDeltas == {Dec(10 * k) : k \in 0..MaxMidGain}
EndDeltas == {0, Dec(16), Dec(29), Dec(42), Dec(56), Dec(80)}
Spreads == {0, Dec(20)}
VenuePairs == {<<AvailableDexes[i], AvailableTokens[j]>> :
                  i \in DOMAIN AvailableDexes, j \in 2..Len(AvailableTokens)}
UnavailableSets == {{}} \cup {{vp} : vp \in VenuePairs}

Markets == [midDelta : MidDeltas, endDelta : EndDeltas, spread : Spreads,
            unavailable : UnavailableSets]

\* A market in which every venue turns 1000 into 1050 on the first hop and
\* 1050 into 1080 on the hop into the end token
ScenarioMarkets == {[midDelta |-> Dec(50), endDelta |-> Dec(30), spread |-> 0,
                     unavailable |-> {}]}

FailureOf(token_out) ==
    CASE token_out = "WMATIC" -> Raises
      [] token_out = "USDT" -> ReturnsNone
      [] token_out = "DAI" -> Returns(0)
      [] OTHER -> Returns(-1)

\* await dex_instance.get_amount_out(token_in, token_out, amount_in)
GetAmountOut(m, end_token, dex, token_in, token_out, amount_in) ==
    IF <<dex, token_out>> \in m.unavailable THEN FailureOf(token_out)
    ELSE Returns(amount_in
                 + (IF token_out = end_token THEN m.endDelta ELSE m.midDelta)
                 + (IF token_out = end_token /\ dex = AvailableDexes[2]
                    THEN m.spread ELSE 0))

\* fee = amount_in * Decimal('0.003'), exact in thousandths for whole amounts
SwapFeeToOneDecimal(amount_in) ==
    ((((amount_in * FEE_PER_MILLE) \div 1000) + 50) \div 100) * 100
SwapFee(amount_in) == (amount_in * FEE_PER_MILLE) \div 1000

NoQuote == [ok |-> FALSE, amount_out |-> 0, fee |-> 0]

\* `if not amount_out or amount_out <= 0: return None`, and the same for a
\* call that raised
QuoteMissingUnlessZero(r) == r.kind # "value" \/ r.amount < 0
QuoteMissing(r) == r.kind # "value" \/ r.amount = 0 \/ r.amount <= 0

\* _get_swap_quote: None unless the venue returns an amount > 0
GetSwapQuote(m, end_token, dex, token_in, token_out, amount_in) ==
    LET r == GetAmountOut(m, end_token, dex, token_in, token_out, amount_in)
    IN IF QuoteMissing(r) THEN NoQuote
       ELSE [ok |-> TRUE, amount_out |-> r.amount, fee |-> SwapFee(amount_in)]

\* `if not price1: continue`, `if not quote: break`
NoQuoteGivenNever(quote) == FALSE
NoQuoteGiven(quote) == ~quote.ok

\* One call of _get_swap_quote as the venue sees it, with what it answered
Request(m, end_token, dex, token_in, token_out, amount_in) ==
    [dex |-> dex, token_in |-> token_in, token_out |-> token_out,
     amount_in |-> amount_in,
     outcome |-> GetAmountOut(m, end_token, dex, token_in, token_out, amount_in)]

SwapStep(dex, token_in, token_out, amount_in, quote) ==
    [dex |-> dex, token_in |-> token_in, token_out |-> token_out,
     amount_in |-> amount_in, amount_out |-> quote.amount_out, fee |-> quote.fee]

\* float((net_profit / amount) * 100), counted in 1/1000 of a percent; the
\* amounts routed in the model are whole, so the quotient is exact
ProfitPercent(net_profit, amount) == (net_profit * 100) \div (amount \div Unit)

\* net_profit = gross_profit - total_fees; the gas estimate is not part of it
NetProfitBeforeFees(gross_profit, total_fees) == gross_profit
NetProfit(gross_profit, total_fees) == gross_profit - total_fees

MultiHopRoute(token_path, dex_path, steps, amount, gas_estimate, confidence) ==
    LET final_amount == steps[Len(steps)].amount_out
        total_fees == SumSeq([i \in DOMAIN steps |-> steps[i].fee])
        gross_profit == final_amount - amount
        net_profit == NetProfit(gross_profit, total_fees)
    IN [token_path |-> token_path, dex_path |-> dex_path, hops |-> Len(dex_path),
        steps |-> steps, initial_amount |-> amount, final_amount |-> final_amount,
        total_fees |-> total_fees, gross_profit |-> gross_profit,
        net_profit |-> net_profit,
        profit_percent |-> ProfitPercent(net_profit, amount),
        gas_estimate |-> gas_estimate, confidence |-> confidence,
        timestamp |-> 1]

\* timestamp=datetime.now(): the routes of a call carry the clock reading of
\* that call
StampRoutesFirstCallOnly(list, tick) ==
    IF tick > 1 THEN <<>> ELSE [i \in DOMAIN list |-> [list[i] EXCEPT !.timestamp = tick]]
StampRoutes(list, tick) == [i \in DOMAIN list |-> [list[i] EXCEPT !.timestamp = tick]]

\* the per-hop-count `if net_profit > Decimal(...)`
HopFloor(hops) == CASE hops = 2 -> Dec(10) [] hops = 3 -> Dec(20) [] OTHER -> Dec(30)

PassesFloorLoose(route) == route.net_profit >= HopFloor(route.hops)
PassesFloor(route) == route.net_profit > HopFloor(route.hops)

Intermediates(token_in, token_out, limit) ==
    Take(SelectSeq(AvailableTokens, LAMBDA t : t \notin {token_in, token_out}), limit)

\* itertools.product(dexes, repeat=2), itertools.permutations(tokens, 2 | 3)
Product2(s) ==
    [k \in 1..(Len(s) * Len(s)) |->
        <<s[((k - 1) \div Len(s)) + 1], s[((k - 1) % Len(s)) + 1]>>]
Permutations2(s) ==
    LET idx == SelectSeq(Product2([i \in DOMAIN s |-> i]), LAMBDA q : q[1] # q[2])
    IN [k \in DOMAIN idx |-> <<s[idx[k][1]], s[idx[k][2]]>>]
Permutations3(s) ==
    LET n == Len(s)
        all == [k \in 1..(n * n * n) |->
                  <<((k - 1) \div (n * n)) + 1, (((k - 1) \div n) % n) + 1, ((k - 1) % n) + 1>>]
        idx == SelectSeq(all, LAMBDA q : q[1] # q[2] /\ q[1] # q[3] /\ q[2] # q[3])
    IN [k \in DOMAIN idx |-> <<s[idx[k][1]], s[idx[k][2]], s[idx[k][3]]>>]

\* One 2-hop candidate: <<>> when a quote is missing, when the arithmetic
\* raises (amount = 0), or when the profit is not above the floor
Evaluate2Hop(m, token_in, token_out, amount, intermediate, dex1, dex2) ==
    LET price1 == GetSwapQuote(m, token_out, dex1, token_in, intermediate, amount)
        mid_amount == price1.amount_out
        price2 == GetSwapQuote(m, token_out, dex2, intermediate, token_out, mid_amount)
        route == MultiHopRoute(<<token_in, intermediate, token_out>>, <<dex1, dex2>>,
                               <<SwapStep(dex1, token_in, intermediate, amount, price1),
                                 SwapStep(dex2, intermediate, token_out, mid_amount, price2)>>,
                               amount, GAS_2HOP, 85)
    IN IF NoQuoteGiven(price1) THEN <<>>
       ELSE IF NoQuoteGiven(price2) THEN <<>>
       ELSE IF amount = 0 THEN <<>>
       ELSE IF PassesFloor(route) THEN <<route>> ELSE <<>>

\* The quotes that candidate asks for: the second only after the first
Candidate2Hop(m, token_in, token_out, amount, intermediate, dex1, dex2) ==
    LET price1 == GetSwapQuote(m, token_out, dex1, token_in, intermediate, amount)
        first == Request(m, token_out, dex1, token_in, intermediate, amount)
        second == Request(m, token_out, dex2, intermediate, token_out, price1.amount_out)
    IN [token_path |-> <<token_in, intermediate, token_out>>,
        dex_path |-> <<dex1, dex2>>,
        requests |-> IF NoQuoteGiven(price1) THEN <<first>> ELSE <<first, second>>]

Find2HopRoutes(m, token_in, token_out, amount) ==
    LET ints == Intermediates(token_in, token_out, 10)
        pairs == Product2(AvailableDexes)
        np == Len(pairs)
    IN Flat([k \in 1..(Len(ints) * np) |->
               LET intermediate == ints[((k - 1) \div np) + 1]
                   dd == pairs[((k - 1) % np) + 1]
               IN Evaluate2Hop(m, token_in, token_out, amount, intermediate, dd[1], dd[2])])

StepTokenInStart(steps, token_in) == token_in
StepTokenIn(steps, token_in) ==
    IF steps # <<>> THEN steps[Len(steps)].token_out ELSE token_in

\* for next_token in [...]: quote, break when there is none, else append
RECURSIVE WalkPath(_, _, _, _, _, _, _, _)
WalkPath(m, end_token, dex, token_in, next_tokens, i, current_amount, steps) ==
    IF i > Len(next_tokens) THEN steps
    ELSE LET from == StepTokenIn(steps, token_in)
             quote == GetSwapQuote(m, end_token, dex, from, next_tokens[i], current_amount)
         IN IF NoQuoteGiven(quote) THEN steps
            ELSE WalkPath(m, end_token, dex, token_in, next_tokens, i + 1,
                          quote.amount_out,
                          Append(steps, SwapStep(dex, from, next_tokens[i],
                                                 current_amount, quote)))

\* One 3- or 4-hop candidate, all hops on one venue
EvaluateNHop(m, token_in, token_out, amount, inters, dex, gas_estimate, confidence) ==
    LET next_tokens == Append(inters, token_out)
        steps == WalkPath(m, token_out, dex, token_in, next_tokens, 1, amount, <<>>)
        route == MultiHopRoute(<<token_in>> \o next_tokens,
                               [i \in DOMAIN next_tokens |-> dex],
                               steps, amount, gas_estimate, confidence)
    IN IF Len(steps) # Len(next_tokens) THEN <<>>
       ELSE IF amount = 0 THEN <<>>
       ELSE IF PassesFloor(route) THEN <<route>> ELSE <<>>

\* The quotes that walk asks for, hop by hop, up to the first missing one
RECURSIVE WalkRequests(_, _, _, _, _, _, _)
WalkRequests(m, end_token, dex, from, next_tokens, i, current_amount) ==
    IF i > Len(next_tokens) THEN <<>>
    ELSE LET quote == GetSwapQuote(m, end_token, dex, from, next_tokens[i], current_amount)
             req == Request(m, end_token, dex, from, next_tokens[i], current_amount)
         IN IF NoQuoteGiven(quote) THEN <<req>>
            ELSE <<req>> \o WalkRequests(m, end_token, dex, next_tokens[i], next_tokens,
                                         i + 1, quote.amount_out)

CandidateNHop(m, token_in, token_out, amount, inters, dex) ==
    LET next_tokens == Append(inters, token_out)
    IN [token_path |-> <<token_in>> \o next_tokens,
        dex_path |-> [i \in DOMAIN next_tokens |-> dex],
        requests |-> WalkRequests(m, token_out, dex, token_in, next_tokens, 1, amount)]

Find3HopRoutes(m, token_in, token_out, amount) ==
    LET perms == Permutations2(Intermediates(token_in, token_out, 8))
        dexes == Take(AvailableDexes, 3)
        nd == Len(dexes)
    IN Flat([k \in 1..(Len(perms) * nd) |->
               EvaluateNHop(m, token_in, token_out, amount,
                            perms[((k - 1) \div nd) + 1], dexes[((k - 1) % nd) + 1],
                            GAS_3HOP, 75)])

Find4HopRoutes(m, token_in, token_out, amount) ==
    LET perms == Permutations3(Intermediates(token_in, token_out, 5))
        dexes == Take(AvailableDexes, 2)
        nd == Len(dexes)
    IN Flat([k \in 1..(Len(perms) * nd) |->
               EvaluateNHop(m, token_in, token_out, amount,
                            perms[((k - 1) \div nd) + 1], dexes[((k - 1) % nd) + 1],
                            GAS_4HOP, 65)])

ExceedsThresholdLoose(route, threshold) == route.net_profit >= threshold
ExceedsThreshold(route, threshold) == route.net_profit > threshold

NetProfitGt(a, b) == a.net_profit > b.net_profit

SortRoutesNone(list) == list
SortRoutes(list) == StableSortDesc(list, NetProfitGt)

\* routes of every hop count up to max_hops, before the threshold filter
AllRoutes(m, cfg, args) ==
    LET max_hops == IF args.max_hops # 0 THEN args.max_hops ELSE cfg.max_hops
    IN (IF max_hops >= 2
        THEN Find2HopRoutes(m, args.start_token, args.end_token, args.amount) ELSE <<>>)
       \o (IF max_hops >= 3
           THEN Find3HopRoutes(m, args.start_token, args.end_token, args.amount) ELSE <<>>)
       \o (IF max_hops >= 4
           THEN Find4HopRoutes(m, args.start_token, args.end_token, args.amount) ELSE <<>>)

\* The candidates of one call in the order the loops reach them
Candidates2Hop(m, token_in, token_out, amount) ==
    LET ints == Intermediates(token_in, token_out, 10)
        pairs == Product2(AvailableDexes)
        np == Len(pairs)
    IN [k \in 1..(Len(ints) * np) |->
          LET intermediate == ints[((k - 1) \div np) + 1]
              dd == pairs[((k - 1) % np) + 1]
          IN Candidate2Hop(m, token_in, token_out, amount, intermediate, dd[1], dd[2])]

CandidatesNHop(m, token_in, token_out, amount, perms, dexes) ==
    LET nd == Len(dexes)
    IN [k \in 1..(Len(perms) * nd) |->
          CandidateNHop(m, token_in, token_out, amount,
                        perms[((k - 1) \div nd) + 1], dexes[((k - 1) % nd) + 1])]

CandidatesOf(m, cfg, args) ==
    LET max_hops == IF args.max_hops # 0 THEN args.max_hops ELSE cfg.max_hops
        a == args.start_token
        b == args.end_token
    IN (IF max_hops >= 2 THEN Candidates2Hop(m, a, b, args.amount) ELSE <<>>)
       \o (IF max_hops >= 3
           THEN CandidatesNHop(m, a, b, args.amount,
                               Permutations2(Intermediates(a, b, 8)),
                               Take(AvailableDexes, 3))
           ELSE <<>>)
       \o (IF max_hops >= 4
           THEN CandidatesNHop(m, a, b, args.amount,
                               Permutations3(Intermediates(a, b, 5)),
                               Take(AvailableDexes, 2))
           ELSE <<>>)

FindProfitableRoutesResult(m, cfg, args) ==
    SortRoutes(SelectSeq(AllRoutes(m, cfg, args),
                         LAMBDA r : ExceedsThreshold(r, cfg.min_profit_threshold)))

MinProfitThresholds == {Dec(5), Dec(50)}
MaxHopsArgs == {0, 2, 4}
RouteAmounts == {0, Dec(1000)}

RouterIdle ==
    /\ market = [midDelta |-> 0, endDelta |-> 0, spread |-> 0, unavailable |-> {}]
    /\ routerConfig = [min_profit_threshold |-> Dec(50), max_hops |-> DEFAULT_MAX_HOPS]
    /\ routeArgs = [start_token |-> "", end_token |-> "", amount |-> 0, max_hops |-> 0]
    /\ routes = <<>>
    /\ candidates = <<>>
    /\ rpc = "idle"

RouterInitIn(markets) ==
    /\ market \in markets
    /\ \E threshold \in MinProfitThresholds :
         routerConfig = [min_profit_threshold |-> threshold, max_hops |-> DEFAULT_MAX_HOPS]
    /\ \E amount \in RouteAmounts, max_hops \in MaxHopsArgs :
         routeArgs = [start_token |-> "USDC", end_token |-> "WETH",
                      amount |-> amount, max_hops |-> max_hops]
    /\ routes = <<>>
    /\ candidates = <<>>
    /\ rpc = "ready"

RouterInit == RouterInitIn(Markets \cup ScenarioMarkets)

FindProfitableRoutes ==
    /\ rpc = "ready"
    /\ routes' = StampRoutes(FindProfitableRoutesResult(market, routerConfig, routeArgs), 1)
    /\ candidates' = CandidatesOf(market, routerConfig, routeArgs)
    /\ rpc' = "routed"
    /\ UNCHANGED <<market, routerConfig, routeArgs>>
    /\ UNCHANGED <<engineVars, dexVars, restVars>>

-----------------------------------------------------------------------------
\* OmniStrategyEngine.scan_all_opportunities and the three scans

MaxFinds == 2        \* longest list a detector stub hands to the flash scan

\* the arguments _scan_multihop_routes passes to the router
ScanRouteArgs == [start_token |-> "USDC", end_token |-> "WETH",
                  amount |-> Dec(10000), max_hops |-> 3]

\* opp.get(key, default) on the dicts the flash scan expects
OppGet(opp, key, default) == IF key \in DOMAIN opp THEN opp[key] ELSE default

\* An item that is no dict (an ArbitrageOpportunity object, say): opp.get
\* raises AttributeError
NotADict == [kind |-> "object"]
IsDict(item) == "kind" \notin DOMAIN item

\* `if net_profit > Decimal('20')`
FlashKeeps(net_profit) == net_profit > MIN_NET_PROFIT

\* The signal the flash scan builds from one dict.  execution_time is held
\* in tenths of a second and gas_cost in ten-thousandths.
FlashSignal(opp) ==
    LET profit_estimate == OppGet(opp, "profit", 0)
        gas_cost == OppGet(opp, "gas_cost", Dec(10))
    IN [strategy |-> "flash_arbitrage", profit_estimate |-> profit_estimate,
        confidence |-> 85, risk_score |-> 30,
        capital_required |-> OppGet(opp, "amount", Dec(1000)),
        execution_time |-> 50, gas_cost |-> gas_cost * 10,
        net_profit |-> profit_estimate - gas_cost,
        data |-> opp, timestamp |-> 1]

\* `except Exception: return []` -- what was built before the error is lost
OnScanErrorKeepBuilt(built) == built
OnScanError(built) == <<>>

RECURSIVE FlashLoop(_, _, _)
FlashLoop(arb_opps, i, built) ==
    IF i > Len(arb_opps) THEN [failed |-> FALSE, signals |-> built]
    ELSE IF ~IsDict(arb_opps[i]) THEN [failed |-> TRUE, signals |-> OnScanError(built)]
    ELSE LET signal == FlashSignal(arb_opps[i])
         IN FlashLoop(arb_opps, i + 1,
                      IF FlashKeeps(signal.net_profit) THEN Append(built, signal)
                      ELSE built)

\* _scan_flash_arbitrage.  `await self.arbitrage_detector.find_opportunities()`
\* passes no argument: on an ArbitrageDetector, whose find_opportunities takes
\* token_in, token_out and amount_in, the call raises TypeError.
ScanFlashArbitrage(detector) ==
    IF detector.kind \in {"ArbitrageDetector", "raising"}
    THEN [failed |-> TRUE, signals |-> OnScanError(<<>>)]
    ELSE FlashLoop(detector.returns, 1, <<>>)

\* confidence=route.confidence
SignalConfidenceOfFlash(route) == 85
SignalConfidence(route) == route.confidence

MultiHopSignal(route) ==
    [strategy |-> "multi_hop", profit_estimate |-> route.gross_profit,
     confidence |-> SignalConfidence(route), risk_score |-> 40,
     capital_required |-> route.initial_amount,
     execution_time |-> route.hops * 30,
     gas_cost |-> route.gas_estimate \div 2000,
     net_profit |-> route.net_profit,
     data |-> [route |-> route], timestamp |-> 1]

\* _scan_multihop_routes.  The router is a MultiHopRouter, a router that
\* searches to 4 hops whatever max_hops it is handed, or one whose call raises.
ScanMultihopRoutes(router, m, cfg) ==
    IF router = "raising" THEN [failed |-> TRUE, signals |-> OnScanError(<<>>)]
    ELSE LET args == IF router = "four_hops"
                     THEN [ScanRouteArgs EXCEPT !.max_hops = 4] ELSE ScanRouteArgs
             found_routes == StampRoutes(FindProfitableRoutesResult(m, cfg, args), 1)
         IN [failed |-> FALSE,
             signals |-> [i \in DOMAIN found_routes |-> MultiHopSignal(found_routes[i])]]

\* _scan_cross_dex_opportunities: a placeholder that returns []
ScanCrossDexOpportunities == [failed |-> FALSE, signals |-> <<>>]

\* datetime.now() as each signal is built, one after the other
StampSignals(list) == [i \in DOMAIN list |-> [list[i] EXCEPT !.timestamp = i]]

\* asyncio.gather(..., return_exceptions=True), then every list result is
\* appended in the order flash, multi-hop, cross-DEX
ScanAllResult(results) ==
    StampSignals(Flat([i \in DOMAIN results |-> results[i].signals]))

StubItems ==
    {[profit |-> Dec(100), gas_cost |-> Dec(5), amount |-> Dec(1000)],
     [profit |-> Dec(30)],
     [profit |-> Dec(40), amount |-> Dec(5000)],
     [profit |-> Dec(60), gas_cost |-> Dec(50), amount |-> Dec(2000)],
     NotADict}

Detectors ==
    {[kind |-> "ArbitrageDetector", returns |-> <<>>],
     [kind |-> "raising", returns |-> <<>>]}
    \cup {[kind |-> "stub", returns |-> list] : list \in SeqsUpTo(StubItems, MaxFinds)}

Routers == {"MultiHopRouter", "four_hops", "raising"}

\* Venues for the engine's cycle: a hop into the end token gains 100, 140 or
\* 200 on an amount of 10,000
CycleMarkets ==
    [midDelta : {0}, endDelta : {Dec(100), Dec(140), Dec(200)}, spread : Spreads,
     unavailable : {{}}]
    \cup {[midDelta |-> 0, endDelta |-> Dec(200), spread |-> 0,
           unavailable |-> {<<AvailableDexes[1], AvailableTokens[3]>>}]}

\* Quotes the pairwise detector sees: 100 and 140 wei for 100, or no spread
CycleQuotes ==
    {[d \in {DexOrder[i] : i \in DOMAIN DexOrder} |->
         IF d = DexOrder[1] THEN Returns(100)
         ELSE IF d = DexOrder[2] THEN Returns(140) ELSE ReturnsNone],
     [d \in {DexOrder[i] : i \in DOMAIN DexOrder} |-> Returns(100)]}

CycleCapitals == {0, Dec(20000)}

\* Engines the cycle is run on: every detector beside a MultiHopRouter on one
\* market, and every router, market, threshold and capital beside three of
\* the detectors
CycleSetups ==
    [detector : Detectors, router : {"MultiHopRouter"},
     market : {[midDelta |-> 0, endDelta |-> Dec(200), spread |-> Dec(20),
                unavailable |-> {}]},
     threshold : {Dec(50)}, initial_capital : {0}]
    \cup [detector : {[kind |-> "ArbitrageDetector", returns |-> <<>>],
                      [kind |-> "raising", returns |-> <<>>],
                      [kind |-> "stub",
                       returns |-> <<[profit |-> Dec(100), gas_cost |-> Dec(5),
                                      amount |-> Dec(1000)]>>]},
          router : Routers, market : CycleMarkets,
          threshold : MinProfitThresholds, initial_capital : CycleCapitals]

CycleInit ==
    /\ \E setup \in CycleSetups :
         LET c == IF setup.initial_capital = 0 THEN DEFAULT_CAPITAL
                  ELSE setup.initial_capital
         IN /\ capital = c
            /\ max_position_size = MaxPositionSize(c)
            /\ collaborators = [detector |-> setup.detector, router |-> setup.router,
                                executor |-> "none"]
            /\ market = setup.market
            /\ routerConfig = [min_profit_threshold |-> setup.threshold,
                               max_hops |-> DEFAULT_MAX_HOPS]
    /\ total_profit = 0
    /\ trades_executed = 0
    /\ daily_pnl = <<>>
    /\ opportunities = <<>>
    /\ ranked = <<>>
    /\ allocInput = <<>>
    /\ allocations = EmptyDict
    /\ pc = "built"
    /\ scanOutcome = <<>>
    /\ execResult = [success |-> FALSE]
    /\ executions = <<>>
    /\ routeArgs = [start_token |-> "", end_token |-> "", amount |-> 0, max_hops |-> 0]
    /\ routes = <<>>
    /\ candidates = <<>>
    /\ rpc = "idle"
    /\ venueQuotes \in CycleQuotes
    /\ callArgs = [token_in |-> "WETH", token_out |-> "USDC",
                   amount_in |-> 100, min_profit_pct |-> PctUnit \div 2]
    /\ prices = <<>>
    /\ found = <<>>
    /\ otherQuotes = [d \in {} |-> Raises]
    /\ scanArgs = <<>>
    /\ all_opportunities = <<>>
    /\ dpc = "ready"

ScanAllOpportunities ==
    /\ pc = "built"
    /\ \E results \in {<<ScanFlashArbitrage(collaborators.detector),
                          ScanMultihopRoutes(collaborators.router, market, routerConfig),
                          ScanCrossDexOpportunities>>} :
          /\ opportunities' = ScanAllResult(results)
          /\ scanOutcome' = [i \in DOMAIN results |-> results[i].failed]
    /\ pc' = "scanned"
    /\ UNCHANGED <<capital, max_position_size, total_profit, trades_executed,
                   daily_pnl, ranked, allocInput, allocations>>
    /\ UNCHANGED <<collaborators, execResult, executions>>
    /\ UNCHANGED <<dexVars, routerVars, queryVars, botVars>>

-----------------------------------------------------------------------------
\* OmniStrategyEngine.execute_strategy

MaxExecutions == 3   \* execute_strategy calls made on one engine

\* What awaiting the executor's method does: it returns a dict, or it
\* raises.  A TradeExecutor raises at every call: its execute_arbitrage is
\* a plain function returning a bool, which cannot be awaited, and it has
\* no execute_multihop_route.
ExecutorAnswers ==
    {[kind |-> "returns", result |-> [success |-> TRUE, tx_hash |-> "0x1"]],
     [kind |-> "returns", result |-> [success |-> FALSE]],
     [kind |-> "returns", result |-> [tx_hash |-> "0x2"]],
     [kind |-> "raises", result |-> [success |-> FALSE]]}

Executors == {"TradeExecutor", "stub"}

AnswerOf(executor, answer) ==
    IF executor = "TradeExecutor" THEN [kind |-> "raises", result |-> [success |-> FALSE]]
    ELSE answer

\* the allocation handed to execute_strategy: a Decimal, or a value the
\* log line's `${allocation:,.2f}` cannot format
Allocations == {[kind |-> "decimal", amount |-> Dec(100)], [kind |-> "none", amount |-> 0]}

\* Signals handed to execute_strategy
ExecPool ==
    {Signal("flash_arbitrage", 85, 30, Dec(1000), Dec(30)),
     Signal("flash_arbitrage", 85, 30, Dec(1000), Dec(-5)),
     Signal("multi_hop", 85, 40, Dec(10000), Dec(160)),
     Signal("cross_dex", 85, 30, Dec(1000), Dec(50))}

\* `except Exception as e: return {'success': False, 'error': str(e)}`
ErrorResult == [success |-> FALSE, error |-> "raised"]

\* _execute_flash_arbitrage and _execute_multihop
ExecuteThrough(opportunity, answer, strategy) ==
    IF answer.kind # "returns" THEN ErrorResult
    ELSE LET ok == OppGet(answer.result, "success", FALSE)
         IN [success |-> ok,
             profit |-> IF ok THEN opportunity.net_profit ELSE 0,
             strategy |-> strategy,
             tx_hash |-> OppGet(answer.result, "tx_hash", "None")]

\* _execute_generic
ExecuteGeneric == [success |-> FALSE, error |-> "No executor implemented"]

\* the body of execute_strategy's try block up to `result`
ExecuteResult(opportunity, allocation, answer) ==
    IF allocation.kind # "decimal" THEN ErrorResult
    ELSE IF opportunity.strategy = "flash_arbitrage"
    THEN ExecuteThrough(opportunity, answer, "flash_arbitrage")
    ELSE IF opportunity.strategy = "multi_hop"
    THEN ExecuteThrough(opportunity, answer, "multi_hop")
    ELSE ExecuteGeneric

\* `if result.get('success'):`
RecordsTradeAlways(result) == TRUE
RecordsTrade(result) == OppGet(result, "success", FALSE)

ExecInit ==
    /\ \E initial_capital \in CycleCapitals, executor \in Executors :
         LET c == IF initial_capital = 0 THEN DEFAULT_CAPITAL ELSE initial_capital
         IN /\ capital = c
            /\ max_position_size = MaxPositionSize(c)
            /\ collaborators = [detector |-> "none", router |-> "none",
                                executor |-> executor]
    /\ total_profit = 0
    /\ trades_executed = 0
    /\ daily_pnl = <<>>
    /\ opportunities = <<>>
    /\ ranked = <<>>
    /\ allocInput = <<>>
    /\ allocations = EmptyDict
    /\ pc = "built"
    /\ scanOutcome = <<>>
    /\ execResult = [success |-> FALSE]
    /\ executions = <<>>

ExecuteStrategy ==
    /\ pc = "built"
    /\ Len(executions) < MaxExecutions
    /\ \E opportunity \in ExecPool, allocation \in Allocations, given \in ExecutorAnswers :
         \E answer \in {AnswerOf(collaborators.executor, given)} :
           \E result \in {ExecuteResult(opportunity, allocation, answer)} :
             /\ IF RecordsTrade(result)
                THEN /\ trades_executed' = trades_executed + 1
                     /\ total_profit' = total_profit + OppGet(result, "profit", 0)
                     /\ daily_pnl' = Append(daily_pnl, OppGet(result, "profit", 0))
                ELSE UNCHANGED <<trades_executed, total_profit, daily_pnl>>
             /\ execResult' = result
             /\ executions' = Append(executions,
                                     [opportunity |-> opportunity,
                                      allocation |-> allocation, answer |-> answer])
    /\ UNCHANGED <<capital, max_position_size, opportunities, ranked, allocInput,
                   allocations, pc>>
    /\ UNCHANGED <<collaborators, scanOutcome>>
    /\ UNCHANGED <<dexVars, routerVars, queryVars, botVars>>

-----------------------------------------------------------------------------
\* OmniArb (src/main.py): the scan loop and the shutdown signal

MaxNetworks == 2     \* most networks that connect
MaxCycles == 2       \* scan cycles counted; later cycles leave the count as it is
MaxSignals == 2      \* shutdown signals delivered to the process

\* After OmniArb(): running is False, the handlers for SIGINT and SIGTERM are
\* registered, and a detector exists for every network that connected
BotInit ==
    /\ running = FALSE
    /\ bpc = "constructed"
    /\ delivered = 0
    /\ netIndex = 0
    /\ cycles = 0
    /\ detectors \in 0..MaxNetworks

\* bot.run() enters scan_for_opportunities and reads its configuration
Run ==
    /\ bpc = "constructed"
    /\ bpc' = "starting"
    /\ UNCHANGED <<running, delivered, netIndex, cycles, detectors>>
    /\ UNCHANGED <<engineVars, dexVars, routerVars, queryVars, cycleVars>>

\* self.running = True
StartScanner ==
    /\ bpc = "starting"
    /\ running' = TRUE
    /\ bpc' = "testing"
    /\ UNCHANGED <<delivered, netIndex, cycles, detectors>>
    /\ UNCHANGED <<engineVars, dexVars, routerVars, queryVars, cycleVars>>

\* while self.running: a new cycle, or "Scanner stopped"
TestRunning ==
    /\ bpc = "testing"
    /\ IF running
       THEN /\ bpc' = "scanning"
            /\ netIndex' = 1
            /\ cycles' = IF cycles < MaxCycles THEN cycles + 1 ELSE cycles
       ELSE /\ bpc' = "stopped"
            /\ UNCHANGED <<netIndex, cycles>>
    /\ UNCHANGED <<running, delivered, detectors>>
    /\ UNCHANGED <<engineVars, dexVars, routerVars, queryVars, cycleVars>>

\* one pass of the loop over self.detectors
ScanNetwork ==
    /\ bpc = "scanning"
    /\ netIndex <= detectors
    /\ netIndex' = netIndex + 1
    /\ UNCHANGED <<running, bpc, delivered, cycles, detectors>>
    /\ UNCHANGED <<engineVars, dexVars, routerVars, queryVars, cycleVars>>

\* an exception in the pass: logged, then time.sleep(check_interval)
ScanFails ==
    /\ bpc = "scanning"
    /\ netIndex <= detectors
    /\ bpc' = "sleeping"
    /\ UNCHANGED <<running, delivered, netIndex, cycles, detectors>>
    /\ UNCHANGED <<engineVars, dexVars, routerVars, queryVars, cycleVars>>

\* after the last network: time.sleep(check_interval)
WaitBeforeNextScan ==
    /\ bpc = "scanning"
    /\ netIndex > detectors
    /\ bpc' = "sleeping"
    /\ UNCHANGED <<running, delivered, netIndex, cycles, detectors>>
    /\ UNCHANGED <<engineVars, dexVars, routerVars, queryVars, cycleVars>>

\* the sleep is over: back to the loop's test
WakeUp ==
    /\ bpc = "sleeping"
    /\ bpc' = "testing"
    /\ netIndex' = 0
    /\ UNCHANGED <<running, delivered, cycles, detectors>>
    /\ UNCHANGED <<engineVars, dexVars, routerVars, queryVars, cycleVars>>

\* _signal_handler, run by the interpreter between two steps of the main
\* thread, wherever that thread is
SignalHandler ==
    /\ bpc # "stopped"
    /\ delivered < MaxSignals
    /\ running' = FALSE
    /\ delivered' = delivered + 1
    /\ UNCHANGED <<bpc, netIndex, cycles, detectors>>
    /\ UNCHANGED <<engineVars, dexVars, routerVars, queryVars, cycleVars>>

\* the steps of the main thread
BotProgram ==
    \/ Run
    \/ StartScanner
    \/ TestRunning
    \/ ScanNetwork
    \/ ScanFails
    \/ WaitBeforeNextScan
    \/ WakeUp

-----------------------------------------------------------------------------
\* Parts of the program that take no part in a specification stay as built

QueryIdle ==
    /\ asked = 0
    /\ collected = <<>>
    /\ qpc = "idle"

CycleIdle ==
    /\ collaborators = [detector |-> "none", router |-> "none", executor |-> "none"]
    /\ scanOutcome = <<>>
    /\ execResult = [success |-> FALSE]
    /\ executions = <<>>

BotIdle ==
    /\ running = FALSE
    /\ bpc = "idle"
    /\ delivered = 0
    /\ netIndex = 0
    /\ cycles = 0
    /\ detectors = 0

RestIdle == QueryIdle /\ CycleIdle /\ BotIdle

-----------------------------------------------------------------------------
\* The same call made a second time on unchanged inputs

MaxRerunLen == 2     \* longest list ranked twice

\* clock readings a second call can see: the first call's, or a later one
ClockReadings == {1, 2}

RerunMarkets == {m \in Markets : m.unavailable = {}} \cup ScenarioMarkets

RankAgain ==
    /\ pc = "ranked"
    /\ ranked' = RankResult(opportunities, max_position_size)
    /\ pc' = "reranked"
    /\ UNCHANGED <<capital, max_position_size, total_profit, trades_executed,
                   daily_pnl, opportunities, allocInput, allocations>>
    /\ UNCHANGED <<dexVars, routerVars, restVars>>

FindAgain ==
    /\ dpc \in {"found", "raised"}
    /\ LET ps == ComparePricesResult(venueQuotes)
       IN /\ prices' = ps
          /\ found' = IF FromWeiRaises(ps) THEN <<>>
                      ELSE FindOpportunitiesResult(ps, callArgs)
          /\ dpc' = IF FromWeiRaises(ps) THEN "reraised" ELSE "refound"
    /\ UNCHANGED <<venueQuotes, callArgs, otherQuotes, scanArgs, all_opportunities>>
    /\ UNCHANGED <<engineVars, routerVars, restVars>>

RouteAgain ==
    /\ rpc = "routed"
    /\ \E tick \in ClockReadings :
         routes' = StampRoutes(FindProfitableRoutesResult(market, routerConfig, routeArgs),
                               tick)
    /\ candidates' = CandidatesOf(market, routerConfig, routeArgs)
    /\ rpc' = "rerouted"
    /\ UNCHANGED <<market, routerConfig, routeArgs>>
    /\ UNCHANGED <<engineVars, dexVars, restVars>>

-----------------------------------------------------------------------------
\* Specifications

EngineNext == RankOpportunities \/ AllocateCapital

InitEngine == EngineInit /\ DexIdle /\ RouterIdle /\ RestIdle

SpecEngine == InitEngine /\ [][EngineNext]_vars

DexNext == ComparePrices \/ FindOpportunities \/ ScanTokenPairs

InitDex == DexInit /\ EngineIdle /\ RouterIdle /\ RestIdle

SpecDex == InitDex /\ [][DexNext]_vars

RouterNext == FindProfitableRoutes

InitRouter == RouterInit /\ EngineIdle /\ DexIdle /\ RestIdle

SpecRouter == InitRouter /\ [][RouterNext]_vars

\* compare_prices is one thread running its loop; every call that can come
\* back does
QueryNext == AskVenue \/ VenueAnswers \/ ReturnPrices

InitQuery == QueryInit /\ EngineIdle /\ RouterIdle /\ CycleIdle /\ BotIdle

SpecQuery == InitQuery /\ [][QueryNext]_vars /\ WF_vars(QueryNext)

\* One cycle of the engine: scan, then rank; beside it a caller that asks
\* the pairwise detector directly
CycleNext == ScanAllOpportunities \/ RankOpportunities \/ FindOpportunities

InitCycle == CycleInit /\ QueryIdle /\ BotIdle

SpecCycle == InitCycle /\ [][CycleNext]_vars

ExecNext == ExecuteStrategy

InitExec == ExecInit /\ DexIdle /\ RouterIdle /\ QueryIdle /\ BotIdle

SpecExec == InitExec /\ [][ExecNext]_vars

BotNext == BotProgram \/ SignalHandler

InitBot == BotInit /\ EngineIdle /\ DexIdle /\ RouterIdle /\ QueryIdle /\ CycleIdle

\* the main thread keeps running: every step it can take, it takes
SpecBot == InitBot /\ [][BotNext]_vars /\ WF_vars(BotProgram)

RerunNext ==
    \/ RankOpportunities \/ RankAgain
    \/ FindOpportunities \/ FindAgain
    \/ FindProfitableRoutes \/ RouteAgain

InitRerun ==
    /\ \/ EngineInitWith(SeqsUpTo(RankPool, MaxRerunLen)) /\ DexIdle /\ RouterIdle
       \/ DexInit /\ EngineIdle /\ RouterIdle
       \/ RouterInitIn(RerunMarkets) /\ EngineIdle /\ DexIdle
    /\ RestIdle

SpecRerun == InitRerun /\ [][RerunNext]_vars

-----------------------------------------------------------------------------
\* Claims about the engine

\* The three conditions of the ranking filter, as the claim states them
MeetsRankRequirements(o) ==
    /\ o.confidence > 70
    /\ o.net_profit > Dec(20)
    /\ o.capital_required <= max_position_size

\* C1: whatever the capital and the list of signals, the allocations returned
\* by allocate_capital sum to at most 80% of the capital and each of them is
\* at most max_position_size, which is 20% of the capital.
C1_AllocationBound ==
    pc = "allocated" =>
        /\ SumValues(allocations) * 10 <= capital * 8
        /\ max_position_size * 10 = capital * 2
        /\ \A o \in DOMAIN allocations : allocations[o] <= max_position_size

\* C1 witness: an allocation pass that hands out the whole 80% with a
\* position at the cap.
C1_Witness ==
    /\ pc = "allocated"
    /\ Len(allocInput) >= 4
    /\ SumValues(allocations) * 10 = capital * 8
    /\ \E o \in DOMAIN allocations : allocations[o] = max_position_size

\* C2: every ranked signal has confidence > 0.7, net_profit > 20 and
\* capital_required <= max_position_size, and the ranked list holds exactly
\* the input signals that meet all three (each as often as the input holds
\* it); a signal with confidence 0.6 is never in it.
C2_RankFilterExact ==
    pc = "ranked" =>
        /\ \A i \in DOMAIN ranked : MeetsRankRequirements(ranked[i])
        /\ \A i \in DOMAIN opportunities :
             LET o == opportunities[i]
             IN Count(ranked, o) = IF MeetsRankRequirements(o)
                                   THEN Count(opportunities, o) ELSE 0
        /\ \A i \in DOMAIN ranked : Count(opportunities, ranked[i]) > 0
        /\ \A i \in DOMAIN ranked : ranked[i].confidence # 60

\* C2 witness: a ranking that drops a confidence-0.6 signal of high profit
\* and keeps another signal.
C2_Witness ==
    /\ pc = "ranked"
    /\ \E i \in DOMAIN opportunities :
         /\ opportunities[i].confidence = 60
         /\ opportunities[i].net_profit = Dec(90)
    /\ Len(ranked) >= 1
    /\ Len(ranked) < Len(opportunities)

\* C3: the ranked list is in non-increasing order of the risk-adjusted score
\* (net_profit / capital_required) / risk_score * confidence.
C3_RankedByScore ==
    pc = "ranked" =>
        \A i \in 1..(Len(ranked) - 1) : ~ScoreGt(ranked[i + 1], ranked[i])

\* C3 witness: a ranking of signals with different scores that had to move
\* the better one in front.
C3_Witness ==
    /\ pc = "ranked"
    /\ Len(ranked) >= 2
    /\ ScoreGt(ranked[1], ranked[Len(ranked)])
    /\ ranked # SelectSeq(opportunities, MeetsRankRequirements)

ExecutorSucceeded(call) ==
    /\ call.opportunity.strategy \in {"flash_arbitrage", "multi_hop"}
    /\ call.allocation.kind = "decimal"
    /\ call.answer.kind = "returns"
    /\ "success" \in DOMAIN call.answer.result
    /\ call.answer.result.success

\* C29: after any sequence of execute_strategy calls on a fresh engine,
\* trades_executed is the number of entries of daily_pnl and total_profit
\* is their sum; a call that is not successful (the executor fails or
\* raises, or the strategy has no executor) leaves the three unchanged and
\* returns a result whose success is False.
C29_ExecutionBookkeeping ==
    /\ [](/\ trades_executed = Len(daily_pnl)
          /\ total_profit = SumSeq(daily_pnl))
    /\ [][(Len(executions') = Len(executions) + 1
            /\ ~ExecutorSucceeded(executions'[Len(executions')]))
          => /\ trades_executed' = trades_executed
             /\ total_profit' = total_profit
             /\ daily_pnl' = daily_pnl
             /\ "success" \in DOMAIN execResult'
             /\ execResult'.success = FALSE]_vars

\* C29 witness: three calls on one engine, two of them recorded as trades
\* with different profits, one of them at a loss, and the last one failed
\* and left the books as they were.
C29_Witness ==
    /\ Len(executions) = 3
    /\ trades_executed = 2
    /\ Len(daily_pnl) = 2
    /\ daily_pnl[1] > 0 /\ daily_pnl[2] < 0
    /\ total_profit = daily_pnl[1] + daily_pnl[2]
    /\ ~ExecutorSucceeded(executions[3])
    /\ execResult.success = FALSE

\* C30: once a shutdown signal has been delivered to the bot, the scan loop
\* eventually stops, whenever the signal arrives relative to the start of
\* scan_for_opportunities.
C30_SignalStopsLoop == (delivered > 0) ~> (bpc = "stopped")

\* C28: allocate_capital respects the order of its input: with a capital
\* of at least 500, whenever a signal has an allocation, every signal
\* before it in the list has one too or asks for less than 100; no signal
\* asking for 100 or more is passed over while a later one is funded.
\* (Signals equal in every field are one key of the result: such a signal
\* has its place in the list where it first stands.)
C28_RankPriorityRespected ==
    (pc = "allocated" /\ capital >= Dec(500)) =>
        \A j \in DOMAIN allocInput :
            (/\ allocInput[j] \in DOMAIN allocations
             /\ \A k \in 1..(j - 1) : allocInput[k] # allocInput[j]) =>
                \A i \in 1..(j - 1) :
                    \/ allocInput[i] \in DOMAIN allocations
                    \/ allocInput[i].capital_required < MIN_POSITION

\* C28 witness: with a capital of 500 a list has been allocated in which a
\* signal asking for less than 100 was passed over, later signals were
\* funded, one of them for less than it asks, and the capital ran out at
\* the last one.
C28_Witness ==
    /\ pc = "allocated"
    /\ capital = Dec(500)
    /\ Len(allocInput) = 5
    /\ \E i, j, k \in DOMAIN allocInput :
         /\ i < j /\ j < k
         /\ allocInput[i] \notin DOMAIN allocations
         /\ allocInput[i].capital_required < MIN_POSITION
         /\ allocInput[j] \in DOMAIN allocations
         /\ allocations[allocInput[j]] < allocInput[j].capital_required
         /\ allocInput[k] \in DOMAIN allocations
    /\ SumValues(allocations) = AvailableCapital(capital)

\* C21: rank_opportunities and allocate_capital leave the engine as it was:
\* capital, max_position_size, total_profit, trades_executed and daily_pnl
\* have the same values after the call as before, and the list of signals
\* handed in (the caller's list; for allocate_capital the ranked list) is not
\* modified; allocate_capital only returns a mapping.
C21_EngineStateUntouched ==
    [][(pc' # pc /\ pc' \in {"ranked", "allocated"}) =>
          /\ capital' = capital
          /\ max_position_size' = max_position_size
          /\ total_profit' = total_profit
          /\ trades_executed' = trades_executed
          /\ daily_pnl' = daily_pnl
          /\ opportunities' = opportunities
          /\ pc = "ranked" => ranked' = ranked
          /\ pc' = "allocated" =>
                allocInput' = IF pc = "ranked" THEN ranked ELSE opportunities]_vars

\* C21 witness: a ranking that reordered its signals, followed by an
\* allocation that handed out capital, with the engine's capital still whole.
C21_Witness ==
    /\ pc = "allocated"
    /\ Len(ranked) >= 2
    /\ allocInput = ranked
    /\ ranked # SelectSeq(opportunities, MeetsRankRequirements)
    /\ SumValues(allocations) > 0
    /\ capital = Dec(1000)
    /\ max_position_size = Dec(200)

-----------------------------------------------------------------------------
\* Claims about the venue aggregator and the pairwise detector

\* C5: every opportunity find_opportunities returns has profit > 0, a
\* profit_percentage of at least the caller's min_profit_pct, a sell_price
\* above its buy_price, and two different venues.
C5_OpportunitiesProfitable ==
    dpc = "found" =>
        \A i \in DOMAIN found :
            /\ found[i].profit > 0
            /\ found[i].profit_percentage >= callArgs.min_profit_pct
            /\ found[i].sell_price > found[i].buy_price
            /\ found[i].buy_dex # found[i].sell_dex

\* C5 witness: a detection that returns an opportunity and leaves out a
\* pair of venues whose spread is positive but under the caller's minimum.
C5_Witness ==
    /\ dpc = "found"
    /\ Len(found) >= 1
    /\ \E i, j \in DOMAIN prices :
         /\ prices[j][2] > prices[i][2]
         /\ prices[i][2] > 0
         /\ (prices[j][2] - prices[i][2]) * 100 * PctUnit
               < callArgs.min_profit_pct * prices[i][2]

\* C6: the list compare_prices returns has non-increasing output amounts.
C6_PricesSorted ==
    dpc \in {"compared", "found"} =>
        \A i \in 1..(Len(prices) - 1) : prices[i][2] >= prices[i + 1][2]

\* C6 witness: three venues answer with different amounts, and not in the
\* order the venues were asked.
C6_Witness ==
    /\ dpc = "compared"
    /\ Len(prices) = 3
    /\ prices[1][2] > prices[2][2]
    /\ prices[2][2] > prices[3][2]
    /\ prices[1][1] # DexOrder[1]

\* C7: compare_prices leaves out every venue whose query raises, returns
\* None or returns an amount <= 0, it returns whatever the venues do, and
\* every amount in its result is strictly positive.
C7_OnlyPositiveQuotes ==
    dpc = "compared" =>
        /\ \A i \in DOMAIN prices : prices[i][2] > 0
        /\ \A d \in DOMAIN venueQuotes :
             (venueQuotes[d].kind \in {"error", "none"} \/ venueQuotes[d].amount <= 0)
                => \A i \in DOMAIN prices : prices[i][1] # d

\* The greedy pass as the claim describes it, replayed over the list that
\* was handed to allocate_capital: what remains before each signal and what
\* the signal is given (0 when the amount would be below 100).
RECURSIVE GreedyPass(_, _)
GreedyPass(i, remaining) ==
    IF i > Len(allocInput) THEN <<>>
    ELSE LET cr == allocInput[i].capital_required
             m == IF max_position_size <= cr /\ max_position_size <= remaining
                  THEN max_position_size
                  ELSE IF cr <= remaining THEN cr ELSE remaining
             given == IF m >= Dec(100) THEN m ELSE 0
         IN <<[before |-> remaining, given |-> given]>>
                \o GreedyPass(i + 1, remaining - given)

\* C14: each signal that receives capital receives exactly
\* min(max_position_size, capital_required, capital remaining at its turn);
\* no allocation is below 100; once less than 100 remains, no later signal
\* of the list receives anything.  (Signals equal in every field are one
\* key of the result, which holds what the last of them was given.)
C14_GreedyAllocation ==
    pc = "allocated" =>
        LET pass == GreedyPass(1, (capital * 8) \div 10)
            gets(i) == pass[i].given > 0
        IN /\ \A o \in DOMAIN allocations :
                /\ allocations[o] >= Dec(100)
                /\ \E i \in DOMAIN allocInput : allocInput[i] = o /\ gets(i)
           /\ \A i \in DOMAIN allocInput :
                gets(i) =>
                    /\ allocInput[i] \in DOMAIN allocations
                    /\ (\A j \in DOMAIN allocInput :
                            (j > i /\ allocInput[j] = allocInput[i]) => ~gets(j))
                        => allocations[allocInput[i]] = pass[i].given
           /\ \A i \in DOMAIN allocInput :
                pass[i].before < Dec(100) =>
                    \A j \in DOMAIN allocInput :
                        j >= i =>
                            \/ allocInput[j] \notin DOMAIN allocations
                            \/ \E k \in 1..(i - 1) : allocInput[k] = allocInput[j]

\* C14 witness: a pass in which one signal is given its capital_required
\* (below the cap), the capital left then falls under 100 mid-list, and a
\* later signal asking for 100 or more is left without an allocation.
C14_Witness ==
    /\ pc = "allocated"
    /\ LET pass == GreedyPass(1, (capital * 8) \div 10)
       IN /\ \E k \in DOMAIN allocInput :
               /\ pass[k].given = allocInput[k].capital_required
               /\ pass[k].given < max_position_size
          /\ \E j \in DOMAIN allocInput :
               /\ pass[j].before < Dec(100)
               /\ pass[j].before > 0
               /\ allocInput[j].capital_required >= Dec(100)
               /\ allocInput[j] \notin DOMAIN allocations

\* C15: with capital 100,000 (max_position_size 20,000) and a list of two
\* opportunities that each require 30,000, allocate_capital gives 20,000 to
\* the first and 20,000 to the second, and 60,000 of the capital stays
\* unallocated.
C15_TwoCappedPositions ==
    (/\ pc = "allocated"
     /\ capital = Dec(100000)
     /\ Len(allocInput) = 2
     /\ allocInput[1] # allocInput[2]
     /\ \A i \in DOMAIN allocInput : allocInput[i].capital_required = Dec(30000))
    => /\ max_position_size = Dec(20000)
       /\ DOMAIN allocations = {allocInput[1], allocInput[2]}
       /\ allocations[allocInput[1]] = Dec(20000)
       /\ allocations[allocInput[2]] = Dec(20000)
       /\ capital - SumValues(allocations) = Dec(60000)

\* C15 witness: allocate_capital has run on two distinct opportunities of
\* 30,000 each under capital 100,000.
C15_Witness ==
    /\ pc = "allocated"
    /\ capital = Dec(100000)
    /\ Len(allocInput) = 2
    /\ allocInput[1] # allocInput[2]
    /\ \A i \in DOMAIN allocInput : allocInput[i].capital_required = Dec(30000)
    /\ allocations # EmptyDict

\* The scenario of three venues quoting 0.99, 1.02 and 0.98 times an input
\* of 100, searched with min_profit_pct = 0.1
ThreeVenueScenario ==
    /\ \A d \in DOMAIN venueQuotes : venueQuotes[d].kind = "value"
    /\ {venueQuotes[d].amount : d \in DOMAIN venueQuotes} = {98, 99, 102}
    /\ callArgs.amount_in = 100
    /\ callArgs.min_profit_pct = PctUnit \div 10

\* C16 as stated: in that scenario find_opportunities returns exactly one
\* opportunity, buying at the 0.98 venue and selling at the 1.02 venue,
\* with a profit_percentage of about 4.08.
C16_ExactlyOneOpportunity ==
    (dpc = "found" /\ ThreeVenueScenario) =>
        /\ Len(found) = 1
        /\ found[1].buy_price = 98
        /\ found[1].sell_price = 102
        /\ found[1].profit_percentage = 40816

\* C16 amended: in that scenario find_opportunities returns the three
\* profitable pairs, best first: buy at 0.98 / sell at 1.02 (4.0816%), buy
\* at 0.99 / sell at 1.02 (3.0303%), buy at 0.98 / sell at 0.99 (1.0204%).
C16_ThreeOpportunitiesBestFirst ==
    (dpc = "found" /\ ThreeVenueScenario) =>
        /\ Len(found) = 3
        /\ found[1].buy_price = 98 /\ found[1].sell_price = 102
        /\ found[1].profit_percentage = 40816
        /\ found[2].buy_price = 99 /\ found[2].sell_price = 102
        /\ found[2].profit_percentage = 30303
        /\ found[3].buy_price = 98 /\ found[3].sell_price = 99
        /\ found[3].profit_percentage = 10204
        /\ \A i \in DOMAIN found :
              /\ venueQuotes[found[i].buy_dex].amount = found[i].buy_price
              /\ venueQuotes[found[i].sell_dex].amount = found[i].sell_price

\* C16 witness: the scenario's search has run with the venues quoting 0.99,
\* 1.02 and 0.98 in that order.
C16_Witness ==
    /\ dpc = "found"
    /\ ThreeVenueScenario
    /\ venueQuotes[DexOrder[1]].amount = 99
    /\ venueQuotes[DexOrder[2]].amount = 102
    /\ venueQuotes[DexOrder[3]].amount = 98
    /\ found # <<>>

\* C17: for every opportunity find_opportunities returns, buy_price and
\* sell_price are the amounts compare_prices reported for buy_dex and
\* sell_dex, profit = sell_price - buy_price, profit_percentage is that
\* difference relative to buy_price (the lower amount) times 100, to the
\* four decimals the code rounds to, and token_in, token_out, amount_in and
\* network are the values the caller and the detector were given.
C17_OpportunityFields ==
    dpc = "found" =>
        \A i \in DOMAIN found :
            LET o == found[i]
            IN /\ \E k \in DOMAIN prices : prices[k] = <<o.buy_dex, o.buy_price>>
               /\ \E k \in DOMAIN prices : prices[k] = <<o.sell_dex, o.sell_price>>
               /\ venueQuotes[o.buy_dex] = Returns(o.buy_price)
               /\ venueQuotes[o.sell_dex] = Returns(o.sell_price)
               /\ o.profit = o.sell_price - o.buy_price
               /\ o.buy_price < o.sell_price
               /\ o.buy_price > 0
               /\ 2 * Abs(o.profit_percentage * o.buy_price
                          - (o.sell_price - o.buy_price) * 100 * PctUnit) <= o.buy_price
               /\ o.token_in = callArgs.token_in
               /\ o.token_out = callArgs.token_out
               /\ o.amount_in = callArgs.amount_in
               /\ o.network = NETWORK

\* C17 witness: a returned opportunity whose percentage relative to the buy
\* side (98 -> 102: 4.0816) differs from the one relative to the sell side
\* (3.9216).
C17_Witness ==
    /\ dpc = "found"
    /\ \E i \in DOMAIN found :
         /\ found[i].buy_price = 98
         /\ found[i].sell_price = 102
         /\ found[i].profit_percentage = 40816
         /\ found[i].token_in = "USDC"

\* C18: the list find_opportunities returns and the list scan_token_pairs
\* returns (the results of all scanned pairs merged) are each in
\* non-increasing order of profit_percentage.
C18_SortedByProfitPercentage ==
    /\ dpc = "found" =>
          \A i \in 1..(Len(found) - 1) :
              found[i].profit_percentage >= found[i + 1].profit_percentage
    /\ dpc = "scanned" =>
          \A i \in 1..(Len(all_opportunities) - 1) :
              all_opportunities[i].profit_percentage
                  >= all_opportunities[i + 1].profit_percentage

\* C18 witness: a scan of two different pairs whose merged result has an
\* opportunity of the second pair ahead of one of the first pair and
\* behind another, with strictly falling percentages.
C18_Witness ==
    /\ dpc = "scanned"
    /\ Len(scanArgs) = 2
    /\ scanArgs[1] # scanArgs[2]
    /\ \E i, j, k \in DOMAIN all_opportunities :
         /\ i < j /\ j < k
         /\ all_opportunities[i].token_in = scanArgs[1][1]
         /\ all_opportunities[j].token_in = scanArgs[2][1]
         /\ all_opportunities[k].token_in = scanArgs[1][1]
         /\ all_opportunities[i].profit_percentage > all_opportunities[j].profit_percentage
         /\ all_opportunities[j].profit_percentage > all_opportunities[k].profit_percentage

\* C19: when fewer than two venues return a valid quote (a positive
\* amount) for the pair, find_opportunities returns an empty list and
\* raises no error.
C19_FewQuotesEmptyNoError ==
    (/\ dpc \in {"found", "raised"}
     /\ Cardinality({d \in DOMAIN venueQuotes :
                        venueQuotes[d].kind = "value" /\ venueQuotes[d].amount > 0}) < 2)
    => /\ dpc = "found"
       /\ found = <<>>

\* C22: a price comparison eventually returns even when a configured venue
\* never answers its quote request: that venue is left out as having no
\* quote, and the quotes of the venues that did answer are in the result.
C22_ReturnsDespiteSilentVenue ==
    <>(/\ qpc = "returned"
       /\ \A d \in DOMAIN venueQuotes :
             /\ venueQuotes[d] = NeverAnswers => \A i \in DOMAIN prices : prices[i][1] # d
             /\ (venueQuotes[d].kind = "value" /\ venueQuotes[d].amount > 0)
                   => \E i \in DOMAIN prices : prices[i] = <<d, venueQuotes[d].amount>>)

-----------------------------------------------------------------------------
\* Claims about the multi-hop router

\* C8: every route find_profitable_routes returns has a net_profit strictly
\* above the floor of its hop count (10, 20, 30 for 2, 3, 4 hops) and
\* strictly above the router's min_profit_threshold; a route whose
\* net_profit equals either is not returned.
C8_RoutesAboveFloors ==
    rpc = "routed" =>
        \A i \in DOMAIN routes :
            /\ routes[i].hops = 2 => routes[i].net_profit > Dec(10)
            /\ routes[i].hops = 3 => routes[i].net_profit > Dec(20)
            /\ routes[i].hops = 4 => routes[i].net_profit > Dec(30)
            /\ routes[i].net_profit > routerConfig.min_profit_threshold

\* C8 witness: a call that returns routes although the venues offered a path
\* whose net_profit is exactly the smallest floor its hop count can have
\* (2 hops at 10, or the threshold of 50).
C8_Witness ==
    /\ rpc = "routed"
    /\ routes # <<>>
    /\ routeArgs.amount = Dec(1000)
    /\ market.midDelta = 0
    /\ market.unavailable = {}
    /\ \/ market.endDelta = Dec(16) /\ routerConfig.min_profit_threshold = Dec(5)
       \/ market.endDelta = Dec(56) /\ routerConfig.min_profit_threshold = Dec(50)

\* C9: the returned list is in non-increasing order of net_profit, routes of
\* all hop counts in one ordering.
C9_RoutesSorted ==
    rpc = "routed" =>
        \A i \in 1..(Len(routes) - 1) :
            routes[i].net_profit >= routes[i + 1].net_profit

\* C9 witness: a 3-hop route stands between two 2-hop routes of higher and
\* of lower net_profit.
C9_Witness ==
    /\ rpc = "routed"
    /\ \E i, j, k \in DOMAIN routes :
         /\ i < j /\ j < k
         /\ routes[i].hops = 2 /\ routes[j].hops = 3 /\ routes[k].hops = 2
         /\ routes[i].net_profit > routes[j].net_profit
         /\ routes[j].net_profit > routes[k].net_profit

\* C10: every returned route is well formed: hops = len(steps) =
\* len(token_path) - 1 and 2 <= hops <= 4; token_path runs from the start
\* token to the end token; token_path[i+1] is step i's token_out, each
\* step's token_in is the previous step's token_out, each step's amount_in
\* is the previous step's amount_out; the first amount_in is initial_amount
\* and the last amount_out is final_amount.
C10_RoutesWellFormed ==
    rpc = "routed" =>
        \A i \in DOMAIN routes :
            LET r == routes[i]
                n == Len(r.steps)
            IN /\ r.hops = n
               /\ r.hops = Len(r.token_path) - 1
               /\ r.hops \in 2..4
               /\ r.token_path[1] = routeArgs.start_token
               /\ r.token_path[Len(r.token_path)] = routeArgs.end_token
               /\ \A k \in 1..n : r.token_path[k + 1] = r.steps[k].token_out
               /\ \A k \in 1..n : r.token_path[k] = r.steps[k].token_in
               /\ \A k \in 1..(n - 1) :
                    /\ r.steps[k].token_out = r.steps[k + 1].token_in
                    /\ r.steps[k].amount_out = r.steps[k + 1].amount_in
               /\ r.steps[1].amount_in = r.initial_amount
               /\ r.initial_amount = routeArgs.amount
               /\ r.steps[n].amount_out = r.final_amount

\* C10 witness: one call returns routes of 2, 3 and 4 hops whose amounts
\* change from hop to hop.
C10_Witness ==
    /\ rpc = "routed"
    /\ \A h \in 2..4 : \E i \in DOMAIN routes : routes[i].hops = h
    /\ \E i \in DOMAIN routes :
         routes[i].steps[1].amount_out # routes[i].initial_amount

\* C11: every returned route has gross_profit = final_amount -
\* initial_amount, total_fees = the sum of its steps' fees, net_profit =
\* gross_profit - total_fees and profit_percent = net_profit /
\* initial_amount * 100 (profit_percent is held in 1/1000 of a percent).
C11_RouteArithmetic ==
    rpc = "routed" =>
        \A i \in DOMAIN routes :
            LET r == routes[i]
            IN /\ r.gross_profit = r.final_amount - r.initial_amount
               /\ r.total_fees = SumSeq([k \in DOMAIN r.steps |-> r.steps[k].fee])
               /\ r.net_profit = r.gross_profit - r.total_fees
               /\ r.initial_amount % Unit = 0
               /\ r.profit_percent * (r.initial_amount \div Unit) = r.net_profit * 100

\* C11 witness: a returned 3-hop route with three non-zero fees that differ
\* from hop to hop and a net_profit below its gross_profit.
C11_Witness ==
    /\ rpc = "routed"
    /\ \E i \in DOMAIN routes :
         /\ routes[i].hops = 3
         /\ routes[i].steps[1].fee > 0
         /\ routes[i].steps[2].fee > routes[i].steps[1].fee
         /\ routes[i].steps[3].fee > routes[i].steps[2].fee
         /\ routes[i].net_profit < routes[i].gross_profit

\* C12: a route's net_profit is net of gas: it is gross_profit - total_fees
\* minus the value of the route's gas estimate, so with a positive gas
\* estimate it lies strictly below gross_profit - total_fees.
C12_NetOfGas ==
    rpc = "routed" =>
        \A i \in DOMAIN routes :
            routes[i].gas_estimate > 0 =>
                routes[i].net_profit < routes[i].gross_profit - routes[i].total_fees

\* C13 as stated: for initial amount 1000, first-hop output 1050 and
\* second-hop output 1080 the 2-hop route has gross_profit 80, total_fees
\* 6.2, net_profit 73.8 and profit_percent 7.38, and is returned.
C13_ScenarioAsStated ==
    (rpc = "routed" /\ market \in ScenarioMarkets /\ routeArgs.amount = Dec(1000)) =>
        \E i \in DOMAIN routes :
            /\ routes[i].hops = 2
            /\ routes[i].steps[1].amount_out = Dec(1050)
            /\ routes[i].final_amount = Dec(1080)
            /\ routes[i].gross_profit = Dec(80)
            /\ routes[i].total_fees = 6200
            /\ routes[i].net_profit = 73800
            /\ routes[i].profit_percent = 7380

\* C13 amended: in that scenario the fees are 3 and 3.15 (0.3% of 1000 and
\* of 1050), so every 2-hop route has gross_profit 80, total_fees 6.15,
\* net_profit 73.85 and profit_percent 7.385; it passes the 2-hop floor of
\* 10 and is returned.
C13_ScenarioExact ==
    (rpc = "routed" /\ market \in ScenarioMarkets /\ routeArgs.amount = Dec(1000)) =>
        /\ \E i \in DOMAIN routes : routes[i].hops = 2
        /\ \A i \in DOMAIN routes :
              routes[i].hops = 2 =>
                  /\ routes[i].steps[1].amount_out = Dec(1050)
                  /\ routes[i].steps[1].fee = 3000
                  /\ routes[i].steps[2].fee = 3150
                  /\ routes[i].final_amount = Dec(1080)
                  /\ routes[i].gross_profit = Dec(80)
                  /\ routes[i].total_fees = 6150
                  /\ routes[i].net_profit = 73850
                  /\ routes[i].profit_percent = 7385
                  /\ routes[i].net_profit > Dec(10)

\* C13 witness: the scenario's call has returned its 2-hop routes under the
\* default threshold of 50.
C13_Witness ==
    /\ rpc = "routed"
    /\ market \in ScenarioMarkets
    /\ routeArgs.amount = Dec(1000)
    /\ routerConfig.min_profit_threshold = Dec(50)
    /\ \E i \in DOMAIN routes : routes[i].hops = 2 /\ routes[i].final_amount = Dec(1080)

\* A venue's answer that gives _get_swap_quote nothing to return: an
\* exception, None, zero or a negative amount
Unanswered(request) ==
    request.outcome.kind # "value" \/ request.outcome.amount <= 0

\* The returned routes that follow a candidate's tokens and venues
RoutesOfCandidate(c) ==
    SelectSeq(routes, LAMBDA r : r.token_path = c.token_path /\ r.dex_path = c.dex_path)

\* How many candidates the loops of one call reach: 3 intermediates x 9
\* venue pairs, 6 ordered pairs x 3 venues, 6 ordered triples x 2 venues
CandidateCount(max_hops) ==
    (IF max_hops >= 2 THEN 27 ELSE 0) + (IF max_hops >= 3 THEN 18 ELSE 0)
        + (IF max_hops >= 4 THEN 12 ELSE 0)

\* C24: when the quote of a hop is unavailable, the candidate is dropped
\* without a route, no quote is requested for a later hop of that
\* candidate, the call still returns, and the enumeration goes on: every
\* candidate of the call is reached and is quoted afresh from the start
\* token with the initial amount.
C24_UnavailableHopDropsCandidate ==
    rpc = "routed" =>
        /\ Len(candidates) =
              CandidateCount(IF routeArgs.max_hops # 0 THEN routeArgs.max_hops
                             ELSE routerConfig.max_hops)
        /\ \A k \in DOMAIN candidates :
              LET c == candidates[k]
              IN /\ Len(c.requests) \in 1..Len(c.dex_path)
                 /\ c.requests[1].token_in = routeArgs.start_token
                 /\ c.requests[1].amount_in = routeArgs.amount
                 /\ \A i \in DOMAIN c.requests :
                       /\ c.requests[i].dex = c.dex_path[i]
                       /\ c.requests[i].token_out = c.token_path[i + 1]
                       /\ Unanswered(c.requests[i]) =>
                             /\ i = Len(c.requests)
                             /\ RoutesOfCandidate(c) = <<>>
                 /\ Len(c.requests) < Len(c.dex_path) =>
                       Unanswered(c.requests[Len(c.requests)])

\* C24 witness: a call over 2 to 4 hops in which one venue has no quote for
\* one token; a 3-hop candidate is cut at its second hop, a candidate
\* before it and one after it are quoted to the end, and a candidate
\* reached later is returned as a route.
C24_Witness ==
    /\ rpc = "routed"
    /\ routeArgs.amount = Dec(1000)
    /\ \E k \in DOMAIN candidates :
         /\ Len(candidates[k].dex_path) = 3
         /\ Len(candidates[k].requests) = 2
         /\ candidates[k].requests[2].outcome.kind = "none"
         /\ \E j \in 1..(k - 1) :
              Len(candidates[j].requests) = Len(candidates[j].dex_path)
         /\ \E j \in (k + 1)..Len(candidates) :
              /\ Len(candidates[j].requests) = Len(candidates[j].dex_path)
              /\ RoutesOfCandidate(candidates[j]) # <<>>

\* C25: a path with a hop whose amount_in is zero, the initial amount
\* included, or with a quote that returns zero is discarded: it is quoted
\* no further, no returned route has a step with a zero amount_in or
\* amount_out, a call with a zero amount returns no route, and the call
\* returns in every case.
C25_ZeroAmountPathDiscarded ==
    rpc = "routed" =>
        /\ routes \in Seq([token_path : Seq(STRING), dex_path : Seq(STRING),
                           hops : 2..4, steps : Seq([dex : STRING, token_in : STRING,
                                                     token_out : STRING, amount_in : Int,
                                                     amount_out : Int, fee : Int]),
                           initial_amount : Int, final_amount : Int, total_fees : Int,
                           gross_profit : Int, net_profit : Int, profit_percent : Int,
                           gas_estimate : Int, confidence : Int, timestamp : Int])
        /\ \A i \in DOMAIN routes :
              \A k \in DOMAIN routes[i].steps :
                  routes[i].steps[k].amount_in # 0 /\ routes[i].steps[k].amount_out # 0
        /\ routeArgs.amount = 0 => routes = <<>>
        /\ \A k \in DOMAIN candidates :
              LET c == candidates[k]
              IN \A i \in DOMAIN c.requests :
                    /\ (c.requests[i].outcome = Returns(0)
                        \/ c.requests[i].amount_in = 0) => RoutesOfCandidate(c) = <<>>
                    /\ c.requests[i].outcome = Returns(0) => i = Len(c.requests)
                    /\ i > 1 => c.requests[i].amount_in # 0

\* C25 witness: a call whose venues include one that answers zero for a
\* token: a candidate is abandoned at a hop answered with zero after a hop
\* that was answered, while the call returns routes of other candidates.
C25_Witness ==
    /\ rpc = "routed"
    /\ routes # <<>>
    /\ \E k \in DOMAIN candidates :
         /\ Len(candidates[k].requests) = 2
         /\ candidates[k].requests[2].outcome = Returns(0)
         /\ candidates[k].requests[2].amount_in > 0

\* C25 witness, second case: a call with a zero initial amount whose venues
\* answer a positive amount for it has been walked to the last hop and
\* returned no route.
C25_WitnessZeroAmount ==
    /\ rpc = "routed"
    /\ routeArgs.amount = 0
    /\ routes = <<>>
    /\ \E k \in DOMAIN candidates :
         /\ Len(candidates[k].requests) = Len(candidates[k].dex_path)
         /\ candidates[k].requests[1].amount_in = 0
         /\ ~Unanswered(candidates[k].requests[Len(candidates[k].requests)])

-----------------------------------------------------------------------------
\* Claims about the engine's scan cycle

\* The signals of one strategy in the list the scan returned
SignalsOf(strategy) == SelectSeq(opportunities, LAMBDA o : o.strategy = strategy)

\* profit - gas_cost of a dict the flash scan is handed, with the defaults
\* of 0 and 10 for a missing key
DictNet(d) ==
    (IF "profit" \in DOMAIN d THEN d.profit ELSE 0)
        - (IF "gas_cost" \in DOMAIN d THEN d.gas_cost ELSE Dec(10))

\* C23: scan_all_opportunities always ends with a list and an outcome for
\* each of its three scans; a scan that failed contributes no signal, and
\* the other scans' signals are all in the list: the flash signals are the
\* detector's dicts with profit - gas_cost > 20, in order, and the
\* multi-hop signals are the router's routes, in order.
C23_FailedScanContributesNothing ==
    pc \in {"scanned", "ranked"} =>
        LET flash == SignalsOf("flash_arbitrage")
            multi == SignalsOf("multi_hop")
            detector == collaborators.detector
            args == IF collaborators.router = "four_hops"
                    THEN [ScanRouteArgs EXCEPT !.max_hops = 4] ELSE ScanRouteArgs
        IN /\ Len(scanOutcome) = 3
           /\ opportunities = flash \o multi
           /\ scanOutcome[1] => flash = <<>>
           /\ scanOutcome[2] => multi = <<>>
           /\ ~scanOutcome[3]
           /\ scanOutcome[1] = (\/ detector.kind # "stub"
                                \/ \E i \in DOMAIN detector.returns :
                                      detector.returns[i] = NotADict)
           /\ scanOutcome[2] = (collaborators.router = "raising")
           /\ ~scanOutcome[1] =>
                 [i \in DOMAIN flash |-> flash[i].data]
                     = SelectSeq(detector.returns, LAMBDA d : DictNet(d) > Dec(20))
           /\ ~scanOutcome[2] =>
                 [i \in DOMAIN multi |-> multi[i].data.route]
                     = StampRoutes(FindProfitableRoutesResult(market, routerConfig, args), 1)

\* C23 witness: a scan whose flash part failed on its second item, after a
\* first item good for a signal, and whose multi-hop part returned signals.
C23_Witness ==
    /\ pc = "scanned"
    /\ scanOutcome = <<TRUE, FALSE, FALSE>>
    /\ collaborators.detector.kind = "stub"
    /\ Len(collaborators.detector.returns) = 2
    /\ collaborators.detector.returns[1] # NotADict
    /\ DictNet(collaborators.detector.returns[1]) > Dec(20)
    /\ collaborators.detector.returns[2] = NotADict
    /\ Len(opportunities) >= 2
    /\ \A i \in DOMAIN opportunities : opportunities[i].strategy = "multi_hop"

\* C26: every opportunity the pairwise detector (ArbitrageDetector) finds
\* whose profit minus the gas cost of 10 exceeds 20 is among the signals
\* scan_all_opportunities returns, as a flash_arbitrage signal that carries
\* it.
C26_PairwiseReachesRanker ==
    (/\ pc \in {"scanned", "ranked"}
     /\ collaborators.detector.kind = "ArbitrageDetector"
     /\ dpc = "found")
    => \A i \in DOMAIN found :
          found[i].profit - 10 > 20 =>
              \E k \in DOMAIN opportunities :
                  /\ opportunities[k].strategy = "flash_arbitrage"
                  /\ opportunities[k].data = found[i]

\* C27: no route of 4 hops survives ranking: every multi-hop signal carries
\* its route's confidence, which is 0.85, 0.75 or 0.65 for 2, 3 or 4 hops,
\* and the ranked list holds no signal of confidence <= 0.7, hence none of
\* a 4-hop route.
C27_NoFourHopRanked ==
    /\ pc \in {"scanned", "ranked"} =>
          \A i \in DOMAIN opportunities :
              opportunities[i].strategy = "multi_hop" =>
                  LET route == opportunities[i].data.route
                  IN /\ opportunities[i].confidence = route.confidence
                     /\ route.hops = 2 => route.confidence = 85
                     /\ route.hops = 3 => route.confidence = 75
                     /\ route.hops = 4 => route.confidence = 65
    /\ pc = "ranked" =>
          \A i \in DOMAIN ranked :
              /\ ranked[i].confidence > 70
              /\ ranked[i].strategy = "multi_hop" => ranked[i].data.route.hops # 4

\* C27 witness: a ranking whose input held the signal of a 4-hop route that
\* meets the profit and capital requirements, and whose result holds the
\* signal of a 3-hop route.
C27_Witness ==
    /\ pc = "ranked"
    /\ \E i \in DOMAIN opportunities :
         /\ opportunities[i].strategy = "multi_hop"
         /\ opportunities[i].data.route.hops = 4
         /\ opportunities[i].net_profit > Dec(20)
         /\ opportunities[i].capital_required <= max_position_size
    /\ \E i \in DOMAIN ranked :
         /\ ranked[i].strategy = "multi_hop"
         /\ ranked[i].data.route.hops = 3

-----------------------------------------------------------------------------
\* Claims about repeated calls

====
